---- MODULE Spec2Model ----
(***************************************************************************)
(* Refresh-token rotation and revocation of ProgramNS/auth-jwt.            *)
(*                                                                         *)
(* The store (Prisma: tables user and refreshToken) is shared by request   *)
(* handlers that run as async functions: every `await prisma...` is a      *)
(* point where another handler, or the clock, may run.  A handler is       *)
(* therefore a chain of steps: the synchronous code up to the first await, *)
(* each store operation, and the synchronous code between two store        *)
(* operations when it reads the clock.                                      *)
(*                                                                         *)
(* Time is counted in ticks (the resolution of Date); a JWT carries iat    *)
(* and exp in whole seconds, TicksPerSec ticks each.                        *)
(***************************************************************************)
EXTENDS Integers, Sequences, FiniteSets, TLC

\* ---------------------------------------------------------------- bounds
\* ticks per JWT second (Date has 1000 per second)
TicksPerSec == 2

\* lifetime of a refresh token in JWT seconds ('7d', scaled)
TtlSecs == 2

\* lifetime of an access token in JWT seconds ('15m', scaled)
AccessTtlSecs == 2

\* number of calls in one behaviour of concurrent handlers
MaxCalls == 3

\* number of calls in one behaviour of one handler at a time
SeqCalls == 4

\* number of calls in one behaviour of the sessions racing the purge
RaceCalls == 4

\* number of calls in one behaviour of the account operations
AcctCalls == 3

\* number of calls in one behaviour of the administrative operations
AdminCalls == 4

\* number of calls in one behaviour of the token checks
TokenCalls == 3

\* number of calls in one behaviour of the password checks
PasswordCalls == 2

\* number of calls in one behaviour of the rejected sessions
RejectCalls == 4

\* number of login requests in one behaviour of one client
LimitCalls == 7

\* number of registrations in one behaviour with a store that may fail
FaultCalls == 3

\* number of calls in one behaviour of the session whose rows are purged
PurgeCalls == 4

\* number of calls in one behaviour of the bearer of an access token
BearerCalls == 3

\* number of completed calls the history keeps
LogLen == 3

TtlTicks == TtlSecs * TicksPerSec

MaxTime == TtlTicks + 1

Procs == {"p1", "p2"}

\* ---------------------------------------------------------------- inputs
EmailInputs == {"a@x.com", "B@x.com"}

\* the address the concurrent calls are made with
ConcEmails == {"a@x.com"}

\* the passwords of the model. The last two stand for two passwords of 128
\* characters, "Aa1!" followed by 124 more, that are the same in their first
\* 72 characters and end in x and in y
PasswordInputs == {"Aa1!aaaa", "Bb2?bbbb", "weak", "Aa1!...x", "Aa1!...y"}

\* the shortest and the longest password of the policy
MinPasswordLength == 8

MaxPasswordLength == 128

\* what validatePasswordStrength looks at: whether the value is a string, its
\* length, and which of the four character classes it has a character of
PasswordShapes ==
    {sh \in [str : BOOLEAN,
             len : {0, 1, MinPasswordLength - 1, MinPasswordLength,
                    MaxPasswordLength, MaxPasswordLength + 1},
             lower : BOOLEAN, upper : BOOLEAN, digit : BOOLEAN,
             special : BOOLEAN] :
        /\ ~sh.str => sh.len = 0
        /\ Cardinality({c \in {"lower", "upper", "digit", "special"} : sh[c]})
              <= sh.len}

\* the shape of a password of the model
PasswordShape(pw) ==
    CASE pw \in {"Aa1!aaaa", "Bb2?bbbb"} ->
             [str |-> TRUE, len |-> MinPasswordLength, lower |-> TRUE,
              upper |-> TRUE, digit |-> TRUE, special |-> TRUE]
      [] pw \in {"Aa1!...x", "Aa1!...y"} ->
             [str |-> TRUE, len |-> MaxPasswordLength, lower |-> TRUE,
              upper |-> TRUE, digit |-> TRUE, special |-> TRUE]
      [] pw = "weak" ->
             [str |-> TRUE, len |-> 4, lower |-> TRUE, upper |-> FALSE,
              digit |-> FALSE, special |-> FALSE]
      [] OTHER ->
             [str |-> TRUE, len |-> 0, lower |-> FALSE, upper |-> FALSE,
              digit |-> FALSE, special |-> FALSE]

\* errors.push(message) when the test of the rule fails
PushIf(failed, message) == IF failed THEN <<message>> ELSE <<>>

\* validatePasswordStrength that returns at the first rule that fails
ValidatePasswordStrength_FirstOnly(sh) ==
    LET all ==
          PushIf(sh.len < MinPasswordLength,
                 "Password must be at least 8 characters long")
          \o PushIf(sh.len > MaxPasswordLength,
                    "Password must be less than 128 characters long")
          \o PushIf(~sh.lower,
                    "Password must contain at least one lowercase letter")
          \o PushIf(~sh.upper,
                    "Password must contain at least one uppercase letter")
          \o PushIf(~sh.digit, "Password must contain at least one number")
          \o PushIf(~sh.special,
                    "Password must contain at least one special character")
        errors == IF ~sh.str \/ sh.len = 0
                  THEN <<"Password must be a string">>
                  ELSE IF all = <<>> THEN all ELSE <<all[1]>>
    IN [isValid |-> Len(errors) = 0, errors |-> errors]

\* PasswordService.validatePasswordStrength: a value that is falsy or not a
\* string gets one error; any other gets one error for each rule it breaks
ValidatePasswordStrength(sh) ==
    LET errors ==
          IF ~sh.str \/ sh.len = 0
          THEN <<"Password must be a string">>
          ELSE PushIf(sh.len < MinPasswordLength,
                      "Password must be at least 8 characters long")
               \o PushIf(sh.len > MaxPasswordLength,
                         "Password must be less than 128 characters long")
               \o PushIf(~sh.lower,
                         "Password must contain at least one lowercase letter")
               \o PushIf(~sh.upper,
                         "Password must contain at least one uppercase letter")
               \o PushIf(~sh.digit,
                         "Password must contain at least one number")
               \o PushIf(~sh.special,
                         "Password must contain at least one special character")
    IN [isValid |-> Len(errors) = 0, errors |-> errors]

\* String.prototype.toLowerCase on the addresses of the model
ToLowerCase(e) ==
    CASE e = "B@x.com" -> "b@x.com"
      [] OTHER -> e

\* PasswordService.validatePasswordStrength(...).isValid on the passwords of
\* the model: "weak" is shorter than 8 and has no upper case, digit or symbol
PasswordIsValid(pw) == ValidatePasswordStrength(PasswordShape(pw)).isValid

\* the bytes of the password that bcrypt reads: the first 72
BcryptInput(pw) ==
    CASE pw \in {"Aa1!...x", "Aa1!...y"} -> "Aa1!..."
      [] OTHER -> pw

\* bcrypt.hash / bcrypt.compare: the hash is kept as the tagged bytes that
\* were hashed
HashPassword(pw) == <<"bcrypt", BcryptInput(pw)>>

ComparePassword(pw, hashed) == hashed = <<"bcrypt", BcryptInput(pw)>>

NoPassword == <<>>

\* ---------------------------------------------------------------- errors
\* an Error is its message, split into the prefix a catch block adds and the
\* message of the error that was caught
NoErr == [pre |-> "", msg |-> ""]

Err(m) == [pre |-> "", msg |-> m]

\* does the message contain the keyword (String.prototype.includes)
Includes(e, kw) ==
    LET has(s) ==
          CASE s = "Invalid refresh token" -> kw \in {"Invalid refresh token"}
            [] s = "Refresh token has been revoked" -> kw \in {"revoked"}
            [] s = "Refresh token has expired" -> kw \in {"expired"}
            [] s = "Token already revoked" -> kw \in {"already revoked", "revoked"}
            [] s = "User with this email already exists" -> kw \in {"already exists"}
            [] s = "Password validation failed" -> kw \in {"validation failed"}
            [] s = "Invalid email or password" -> kw \in {"Invalid email"}
            [] s = "This account uses OAuth authentication" -> kw \in {"OAuth authentication"}
            [] s = "Refresh token is required" -> kw \in {"required"}
            [] s = "User ID is required" -> kw \in {"required"}
            [] OTHER -> FALSE
    IN has(e.pre) \/ has(e.msg)

\* catch (error) { if (keywords) throw error; throw new Error(`${prefix}: ...`) }
Rethrow(e, keywords, prefix) ==
    IF \E kw \in keywords : Includes(e, kw) THEN e
    ELSE [pre |-> prefix, msg |-> e.msg]

LogoutKeywords == {"Invalid refresh token", "already revoked"}

RefreshKeywords == {"Invalid refresh token", "revoked", "expired"}

RegisterKeywords == {"already exists", "validation failed", "Invalid email"}

LoginKeywords == {"Invalid email", "OAuth authentication"}

\* ---------------------------------------------------------------- state
VARIABLES
    now,        \* the clock, in ticks
    users,      \* table user: a set of account records
    tokens,     \* table refreshToken: a set of rows
    nextId,     \* the next primary key the store hands out
    issued,     \* refresh tokens that were returned to a caller
    proc,       \* per handler: its position and its local variables
    log,        \* the last LogLen completed calls, oldest first
    calls,      \* number of calls that may still begin
    window,     \* number of completed calls the history keeps
    env,        \* process.env: the two signing secrets of the deployment
    bearer,     \* access tokens that were returned to a caller
    hits        \* authLimiter: the requests counted for the client

vars == <<now, users, tokens, nextId, issued, proc, log, calls, window, env,
          bearer, hits>>

\* ---------------------------------------------------------------- tokens
\* A signed token is a function of its payload and of the second it was
\* signed in: jwt.sign adds iat = floor(now/1000) and exp = iat + expiresIn,
\* and no jti or nonce.
\* The signature is kept as the secret the token was signed with, and the
\* registered claims iss and aud as strings ("" when the claim is missing).
NoToken == [kind |-> "none", userId |-> 0, email |-> "", iat |-> 0,
            key |-> "", iss |-> "", aud |-> ""]

Garbage == [kind |-> "garbage", userId |-> 0, email |-> "", iat |-> 0,
            key |-> "", iss |-> "", aud |-> ""]

EmptyToken == [kind |-> "empty", userId |-> 0, email |-> "", iat |-> 0,
               key |-> "", iss |-> "", aud |-> ""]

\* the secrets of the test setup: two different strings
TestEnv == [accessSecret |-> "k1", refreshSecret |-> "k2"]

Issuer == "auth-service"

Audience == "auth-client"

SecOf(t) == t \div TicksPerSec

GenerateRefreshToken(payload, t) ==
    [kind |-> "refresh", userId |-> payload.userId, email |-> payload.email,
     iat |-> SecOf(t), key |-> env.refreshSecret, iss |-> Issuer,
     aud |-> Audience]

GenerateAccessToken(payload, t) ==
    [kind |-> "access", userId |-> payload.userId, email |-> payload.email,
     iat |-> SecOf(t), key |-> env.accessSecret, iss |-> Issuer,
     aud |-> Audience]

GenerateTokenPair(payload, t) ==
    [accessToken |-> GenerateAccessToken(payload, t),
     refreshToken |-> GenerateRefreshToken(payload, t)]

\* exp = iat + expiresIn: '15m' for an access token, '7d' for a refresh token
TokenExp(tok) ==
    tok.iat + (IF tok.kind = "access" THEN AccessTtlSecs ELSE TtlSecs)

\* the error verifyRefreshToken throws at time t, NoErr when it returns
VerifyRefreshToken(tok, t) ==
    IF tok.kind = "empty" THEN Err("Token must be a non-empty string")
    ELSE IF tok.kind = "garbage" THEN Err("Invalid refresh token")
    ELSE IF tok.key # env.refreshSecret THEN Err("Invalid refresh token")
    ELSE IF SecOf(t) >= TokenExp(tok) THEN Err("Refresh token has expired")
    ELSE IF tok.aud # Audience \/ tok.iss # Issuer
         THEN Err("Invalid refresh token")
    ELSE IF tok.kind # "refresh"
         THEN Err("Failed to verify refresh token: Invalid token type")
    ELSE NoErr

\* the error verifyAccessToken throws at time t, NoErr when it returns
VerifyAccessToken(tok, t) ==
    IF tok.kind = "empty" THEN Err("Token must be a non-empty string")
    ELSE IF tok.kind = "garbage" THEN Err("Invalid access token")
    ELSE IF tok.key # env.accessSecret THEN Err("Invalid access token")
    ELSE IF SecOf(t) >= TokenExp(tok) THEN Err("Access token has expired")
    ELSE IF tok.aud # Audience \/ tok.iss # Issuer
         THEN Err("Invalid access token")
    ELSE IF tok.kind # "access"
         THEN Err("Failed to verify access token: Invalid token type")
    ELSE NoErr

\* the middleware with a look at the store: the account of the token must be
\* there and hold a session that is not revoked
AuthenticateToken_CheckStore(tok, t) ==
    IF tok.kind = "empty"
    THEN [status |-> 401, code |-> "MISSING_TOKEN", user |-> <<>>]
    ELSE IF tok.kind = "garbage" \/ tok.key # env.accessSecret
    THEN [status |-> 403, code |-> "MALFORMED_TOKEN", user |-> <<>>]
    ELSE IF SecOf(t) >= TokenExp(tok)
    THEN [status |-> 403, code |-> "TOKEN_EXPIRED", user |-> <<>>]
    ELSE IF ~\E r \in tokens : r.userId = tok.userId /\ ~r.isRevoked
    THEN [status |-> 403, code |-> "INVALID_TOKEN", user |-> <<>>]
    ELSE [status |-> 200, code |-> "",
          user |-> [id |-> tok.userId, email |-> tok.email, iat |-> tok.iat,
                    exp |-> TokenExp(tok)]]

\* the answer of the authenticateToken middleware at time t: jwt.verify with
\* the access secret and no options, then req.user from the payload
AuthenticateToken(tok, t) ==
    IF tok.kind = "empty"
    THEN [status |-> 401, code |-> "MISSING_TOKEN", user |-> <<>>]
    ELSE IF tok.kind = "garbage" \/ tok.key # env.accessSecret
    THEN [status |-> 403, code |-> "MALFORMED_TOKEN", user |-> <<>>]
    ELSE IF SecOf(t) >= TokenExp(tok)
    THEN [status |-> 403, code |-> "TOKEN_EXPIRED", user |-> <<>>]
    ELSE [status |-> 200, code |-> "",
          user |-> [id |-> tok.userId, email |-> tok.email, iat |-> tok.iat,
                    exp |-> TokenExp(tok)]]

\* ---------------------------------------------------------------- store
NoRow == [id |-> 0, token |-> NoToken, userId |-> 0, expiresAt |-> 0,
          isRevoked |-> FALSE, parent |-> NoToken]

NoUser == [id |-> 0, email |-> "", password |-> NoPassword,
           provider |-> "", providerId |-> "", isEmailVerified |-> FALSE,
           lastLoginAt |-> 0]

\* a row in state ACTIVE: revoked = false and expiresAt > now
Active(r, t) == ~r.isRevoked /\ r.expiresAt > t

\* prisma.refreshToken.findUnique({ where: { token } })
FindToken(rows, tok) ==
    IF \E r \in rows : r.token = tok
    THEN CHOOSE r \in rows : r.token = tok
    ELSE NoRow

\* the update written as a toggle of the flag
RevokeToken_Toggle(rows, tok) ==
    {IF r.token = tok THEN [r EXCEPT !.isRevoked = ~r.isRevoked] ELSE r
       : r \in rows}

\* the update without its where clause
RevokeToken_NoWhere(rows, tok) ==
    {[r EXCEPT !.isRevoked = TRUE] : r \in rows}

\* prisma.refreshToken.update({ where: { token }, data: { isRevoked: true } })
RevokeToken(rows, tok) ==
    {IF r.token = tok THEN [r EXCEPT !.isRevoked = TRUE] ELSE r : r \in rows}

\* the updateMany without its filter on the owner
RevokeAllOf_Everyone(rows, uid) ==
    {IF ~r.isRevoked THEN [r EXCEPT !.isRevoked = TRUE] ELSE r : r \in rows}

\* prisma.refreshToken.updateMany({ where: { userId, isRevoked: false }, ... })
RevokeAllOf(rows, uid) ==
    {IF r.userId = uid /\ ~r.isRevoked THEN [r EXCEPT !.isRevoked = TRUE] ELSE r
       : r \in rows}

\* the filter with the comparison of expiresAt turned around
Purgeable_Unexpired(r, cutoff) == r.expiresAt > cutoff \/ r.isRevoked

\* prisma.refreshToken.deleteMany({ where: { OR: [expiresAt < cutoff, isRevoked] } })
Purgeable(r, cutoff) == r.expiresAt < cutoff \/ r.isRevoked

\* the delete leaving the revoked rows in place
PurgeTokens_KeepRevoked(rows, cutoff) == {r \in rows : r.expiresAt >= cutoff}

PurgeTokens(rows, cutoff) == {r \in rows : ~Purgeable(r, cutoff)}

\* the count with the filter of expiresAt > now added
RevokeAllCount_ActiveOnly(rows, uid, t) ==
    Cardinality({r \in rows : r.userId = uid /\ Active(r, t)})

\* result.count of the updateMany of revokeAllTokens
RevokeAllCount(rows, uid, t) ==
    Cardinality({r \in rows : r.userId = uid /\ ~r.isRevoked})

\* the delete of an account without the cascade
CascadeDelete_Keep(rows, uid) == rows

\* prisma.user.delete: the rows of the account go with it (the foreign key of
\* refreshToken is ON DELETE CASCADE)
CascadeDelete(rows, uid) == {r \in rows : r.userId # uid}

\* prisma.refreshToken.create: the unique index on token and the foreign key
\* to user decide whether the insert is accepted
CanCreateToken(rows, accounts, tok, uid) ==
    /\ \A r \in rows : r.token # tok
    /\ \E u \in accounts : u.id = uid

\* the rotation written as an update in place of the row it rotates
InsertToken_Reuse(rows, rowId, tok, uid, expiresAt, parent) ==
    IF \E r \in rows : r.token = parent
    THEN {IF r.token = parent
          THEN [r EXCEPT !.token = tok, !.expiresAt = expiresAt,
                         !.isRevoked = FALSE]
          ELSE r : r \in rows}
    ELSE rows \cup {[id |-> rowId, token |-> tok, userId |-> uid,
                     expiresAt |-> expiresAt, isRevoked |-> FALSE,
                     parent |-> parent]}

InsertToken(rows, rowId, tok, uid, expiresAt, parent) ==
    rows \cup {[id |-> rowId, token |-> tok, userId |-> uid,
                expiresAt |-> expiresAt, isRevoked |-> FALSE, parent |-> parent]}

\* const expiry = new Date(); expiry.setDate(expiry.getDate() + 7)
RefreshTokenExpiry_Double(t) == t + 2 * TtlTicks

RefreshTokenExpiry(t) == t + TtlTicks

\* prisma.user.findUnique({ where: { email } })
FindUserByEmail(accounts, e) ==
    IF \E u \in accounts : u.email = e
    THEN CHOOSE u \in accounts : u.email = e
    ELSE NoUser

\* prisma.user.findUnique({ where: { id } })
FindUserById(accounts, id) ==
    IF \E u \in accounts : u.id = id
    THEN CHOOSE u \in accounts : u.id = id
    ELSE NoUser

\* ---------------------------------------------------------------- handlers
Idle ==
    [pc |-> "idle", op |-> "", tok |-> NoToken, email |-> "", pw |-> "",
     uid |-> 0, rec |-> NoRow, usr |-> NoUser, new |-> NoToken, exp |-> 0,
     cutoff |-> 0, wasActive |-> FALSE, wasExpired |-> FALSE,
     unexpired |-> FALSE, wrote |-> FALSE, exists |-> FALSE, known |-> FALSE,
     nActive |-> 0, nLive |-> 0, res |-> [status |-> 0], limited |-> FALSE]

Init ==
    /\ now = 0
    /\ users = {}
    /\ tokens = {}
    /\ nextId = 1
    /\ issued = {}
    /\ proc = [p \in Procs |-> Idle]
    /\ log = <<>>
    /\ calls = MaxCalls
    /\ window = 0
    /\ env = TestEnv
    /\ bearer = {}
    /\ hits = 0

\* the tokens a caller can present: the ones it was given, and junk
TokenInputs == issued \cup {Garbage, EmptyToken}

\* the row of tok is ACTIVE now
ActiveNow(tok) == \E r \in tokens : r.token = tok /\ Active(r, now)

\* the row of tok is past its expiresAt now
ExpiredNow(tok) == \E r \in tokens : r.token = tok /\ r.expiresAt <= now

\* an account holds the address now
ExistsNow(email) == \E u \in users : u.email = ToLowerCase(email)

\* an account holds the address now and pw is its password
KnownNow(email, pw) ==
    \E u \in users :
        u.email = ToLowerCase(email) /\ ComparePassword(pw, u.password)

\* a handler is entered: its arguments are bound, nothing has run yet
Enter(p, op, tok, email, pw, uid) ==
    [Idle EXCEPT !.op = op, !.tok = tok, !.email = email, !.pw = pw,
                 !.uid = uid, !.wasActive = ActiveNow(tok),
                 !.wasExpired = ExpiredNow(tok),
                 !.unexpired = SecOf(now) < TokenExp(tok),
                 !.exists = ExistsNow(email),
                 !.known = KnownNow(email, pw),
                 !.nActive = Cardinality({r \in tokens :
                                 r.userId = uid /\ Active(r, now)}),
                 !.nLive = Cardinality({r \in tokens :
                                 r.userId = uid /\ ~r.isRevoked})]

Record(l, e) ==
    IF window = 0 THEN l
    ELSE IF Len(l) < window THEN Append(l, e)
    ELSE Append(Tail(l), e)

\* the access token of the pair whose refresh token is out: generateTokenPair
\* signs both for the same payload at the same time
AccessTokenOf(out) ==
    GenerateAccessToken([userId |-> out.userId, email |-> out.email],
                        out.iat * TicksPerSec)

\* the handler of p returns (ok) or throws (err); f is its frame, h the
\* count of authLimiter when the answer is sent.  skipSuccessfulRequests: the
\* limiter takes back the hit of a request that is answered with success
ReturnWith(p, f, ok, err, out, count, h) ==
    /\ log' = Record(log, [op |-> f.op, tok |-> f.tok, email |-> f.email,
                           pw |-> f.pw, uid |-> f.uid, ok |-> ok, err |-> err, out |-> out,
                           count |-> count, wasActive |-> f.wasActive,
                           wasExpired |-> f.wasExpired,
                           unexpired |-> f.unexpired, wrote |-> f.wrote,
                           exists |-> f.exists, known |-> f.known,
                           cutoff |-> f.cutoff, nActive |-> f.nActive,
                           nLive |-> f.nLive, res |-> f.res,
                           limited |-> f.limited])
    /\ proc' = [proc EXCEPT ![p] = Idle]
    /\ issued' = IF ok /\ out # NoToken THEN issued \cup {out} ELSE issued
    /\ bearer' = IF ok /\ out # NoToken
                 THEN bearer \cup {AccessTokenOf(out)} ELSE bearer
    /\ hits' = IF f.limited /\ ok THEN h - 1 ELSE h

Return(p, f, ok, err, out, count) ==
    ReturnWith(p, f, ok, err, out, count, hits)

GotoWith(p, f, pc, h) ==
    /\ proc' = [proc EXCEPT ![p] = [f EXCEPT !.pc = pc]]
    /\ hits' = h
    /\ UNCHANGED <<log, issued, bearer>>

Goto(p, f, pc) == GotoWith(p, f, pc, hits)

\* a call is served by the first handler that is free
CanBegin(p) ==
    /\ proc[p].pc = "idle"
    /\ p = "p2" => proc["p1"].pc # "idle"
    /\ calls > 0

\* ---------------------------------------------------------------- clock
Tick ==
    /\ now < MaxTime
    /\ now' = now + 1
    /\ UNCHANGED <<users, tokens, nextId, issued, proc, log, calls, window, env,
                   bearer, hits>>

\* ---------------------------------------------------------------- logout
\* AuthService.logout, up to the first await: the argument check and
\* JWTService.verifyRefreshToken
LogoutBegin(p, tok) ==
    /\ CanBegin(p)
    /\ calls' = calls - 1
    /\ LET f == Enter(p, "logout", tok, "", "", 0)
           v == VerifyRefreshToken(tok, now)
       IN IF tok = EmptyToken
          THEN Return(p, f, FALSE, Err("Refresh token is required"), NoToken, 0)
          ELSE IF v # NoErr
          THEN Return(p, f, FALSE, Rethrow(v, LogoutKeywords, "Logout failed"),
                      NoToken, 0)
          ELSE Goto(p, f, "logout_find")
    /\ UNCHANGED <<now, users, tokens, nextId, window, env>>

\* LogoutFind without the check of isRevoked
LogoutFind_NoRevokedCheck(p) ==
    /\ proc[p].pc = "logout_find"
    /\ LET f == proc[p]
           tokenRecord == FindToken(tokens, f.tok)
       IN IF tokenRecord = NoRow
          THEN Return(p, f, FALSE, Err("Invalid refresh token"), NoToken, 0)
          ELSE Goto(p, [f EXCEPT !.rec = tokenRecord], "logout_update")
    /\ UNCHANGED <<now, users, tokens, nextId, calls, window, env>>

\* findUnique, and the two checks on the row it returned
LogoutFind(p) ==
    /\ proc[p].pc = "logout_find"
    /\ LET f == proc[p]
           tokenRecord == FindToken(tokens, f.tok)
       IN IF tokenRecord = NoRow
          THEN Return(p, f, FALSE, Err("Invalid refresh token"), NoToken, 0)
          ELSE IF tokenRecord.isRevoked
          THEN Return(p, f, FALSE, Err("Token already revoked"), NoToken, 0)
          ELSE Goto(p, [f EXCEPT !.rec = tokenRecord], "logout_update")
    /\ UNCHANGED <<now, users, tokens, nextId, calls, window, env>>

\* update({ where: { token }, data: { isRevoked: true } }); it throws when
\* the row is gone
LogoutUpdate(p) ==
    /\ proc[p].pc = "logout_update"
    /\ LET f == proc[p]
       IN IF FindToken(tokens, f.tok) = NoRow
          THEN /\ Return(p, f, FALSE,
                         Rethrow(Err("Record to update not found"),
                                 LogoutKeywords, "Logout failed"), NoToken, 0)
               /\ UNCHANGED tokens
          ELSE /\ tokens' = RevokeToken(tokens, f.tok)
               /\ Return(p, [f EXCEPT !.wrote = TRUE], TRUE, NoErr, NoToken, 0)
    /\ UNCHANGED <<now, users, nextId, calls, window, env>>

\* ---------------------------------------------------------------- refresh
\* AuthService.refreshToken, up to the first await
RefreshBegin(p, tok) ==
    /\ CanBegin(p)
    /\ calls' = calls - 1
    /\ LET f == Enter(p, "refresh", tok, "", "", 0)
           v == VerifyRefreshToken(tok, now)
       IN IF tok = EmptyToken
          THEN Return(p, f, FALSE, Err("Refresh token is required"), NoToken, 0)
          ELSE IF v # NoErr
          THEN Return(p, f, FALSE,
                      Rethrow(v, RefreshKeywords, "Token refresh failed"),
                      NoToken, 0)
          ELSE Goto(p, f, "refresh_find")
    /\ UNCHANGED <<now, users, tokens, nextId, window, env>>

\* findUnique({ where: { token }, include: { user: true } })
RefreshFind(p) ==
    /\ proc[p].pc = "refresh_find"
    /\ LET tokenRecord == FindToken(tokens, proc[p].tok)
       IN Goto(p, [proc[p] EXCEPT !.rec = tokenRecord,
                                  !.usr = FindUserById(users, tokenRecord.userId)],
               "refresh_check")
    /\ UNCHANGED <<now, users, tokens, nextId, calls, window, env>>

\* the three checks on the row; the last one reads the clock
RefreshCheck(p) ==
    /\ proc[p].pc = "refresh_check"
    /\ LET f == proc[p]
           tokenRecord == f.rec
       IN IF tokenRecord = NoRow
          THEN Return(p, f, FALSE, Err("Invalid refresh token"), NoToken, 0)
          ELSE IF tokenRecord.isRevoked
          THEN Return(p, f, FALSE, Err("Refresh token has been revoked"),
                      NoToken, 0)
          ELSE IF tokenRecord.expiresAt < now
          THEN Return(p, f, FALSE, Err("Refresh token has expired"), NoToken, 0)
          ELSE Goto(p, f, "refresh_update")
    /\ UNCHANGED <<now, users, tokens, nextId, calls, window, env>>

\* revoke the old row
RefreshUpdate(p) ==
    /\ proc[p].pc = "refresh_update"
    /\ LET f == proc[p]
       IN IF FindToken(tokens, f.tok) = NoRow
          THEN /\ Return(p, f, FALSE,
                         Rethrow(Err("Record to update not found"),
                                 RefreshKeywords, "Token refresh failed"),
                         NoToken, 0)
               /\ UNCHANGED tokens
          ELSE /\ tokens' = RevokeToken(tokens, f.tok)
               /\ Goto(p, [f EXCEPT !.wrote = TRUE], "refresh_gen")
    /\ UNCHANGED <<now, users, nextId, calls, window, env>>

\* generateTokenPair for the user that was joined to the row, and the expiry
RefreshGen(p) ==
    /\ proc[p].pc = "refresh_gen"
    /\ LET f == proc[p]
           tokenPayload == [userId |-> f.usr.id, email |-> f.usr.email]
           newTokens == GenerateTokenPair(tokenPayload, now)
       IN Goto(p, [f EXCEPT !.new = newTokens.refreshToken,
                            !.exp = RefreshTokenExpiry(now)], "refresh_create")
    /\ UNCHANGED <<now, users, tokens, nextId, calls, window, env>>

\* the rotation with the revocation taken back when the new row is refused
RefreshCreate_RollBack(p) ==
    /\ proc[p].pc = "refresh_create"
    /\ LET f == proc[p]
       IN IF CanCreateToken(tokens, users, f.new, f.usr.id)
          THEN /\ tokens' = InsertToken(tokens, nextId, f.new, f.usr.id,
                                        f.exp, f.tok)
               /\ nextId' = nextId + 1
               /\ Return(p, [f EXCEPT !.wrote = TRUE], TRUE, NoErr, f.new, 0)
          ELSE /\ Return(p, f, FALSE,
                         Rethrow(Err("Unique constraint failed"),
                                 RefreshKeywords, "Token refresh failed"),
                         NoToken, 0)
               /\ tokens' = {IF r.token = f.tok
                             THEN [r EXCEPT !.isRevoked = FALSE] ELSE r
                                : r \in tokens}
               /\ UNCHANGED nextId
    /\ UNCHANGED <<now, users, calls, window, env>>

\* store the new row
RefreshCreate(p) ==
    /\ proc[p].pc = "refresh_create"
    /\ LET f == proc[p]
       IN IF CanCreateToken(tokens, users, f.new, f.usr.id)
          THEN /\ tokens' = InsertToken(tokens, nextId, f.new, f.usr.id,
                                        f.exp, f.tok)
               /\ nextId' = nextId + 1
               /\ Return(p, [f EXCEPT !.wrote = TRUE], TRUE, NoErr, f.new, 0)
          ELSE /\ Return(p, f, FALSE,
                         Rethrow(Err("Unique constraint failed"),
                                 RefreshKeywords, "Token refresh failed"),
                         NoToken, 0)
               /\ UNCHANGED <<tokens, nextId>>
    /\ UNCHANGED <<now, users, calls, window, env>>

\* ---------------------------------------------------------------- register
\* AuthService.register, up to the first await: the field, address and
\* password-strength checks
RegisterBegin(p, email, pw) ==
    /\ CanBegin(p)
    /\ calls' = calls - 1
    /\ LET f == Enter(p, "register", NoToken, email, pw, 0)
       IN IF ~PasswordIsValid(pw)
          THEN Return(p, f, FALSE, Err("Password validation failed"), NoToken, 0)
          ELSE Goto(p, f, "register_find")
    /\ UNCHANGED <<now, users, tokens, nextId, window, env>>

\* findUnique({ where: { email: email.toLowerCase() } })
RegisterFind(p) ==
    /\ proc[p].pc = "register_find"
    /\ LET f == proc[p]
           existingUser == FindUserByEmail(users, ToLowerCase(f.email))
       IN IF existingUser # NoUser
          THEN Return(p, f, FALSE,
                      Rethrow(Err("User with this email already exists"),
                              RegisterKeywords, "Registration failed"),
                      NoToken, 0)
          ELSE Goto(p, f, "register_create")
    /\ UNCHANGED <<now, users, tokens, nextId, calls, window, env>>

\* prisma.user.create: the unique index on email decides
RegisterCreate(p) ==
    /\ proc[p].pc = "register_create"
    /\ LET f == proc[p]
           user == [id |-> nextId, email |-> ToLowerCase(f.email),
                    password |-> HashPassword(f.pw), provider |-> "local",
                    providerId |-> "", isEmailVerified |-> FALSE,
                    lastLoginAt |-> 0]
       IN IF FindUserByEmail(users, user.email) # NoUser
          THEN /\ Return(p, f, FALSE,
                         Rethrow(Err("Unique constraint failed"),
                                 RegisterKeywords, "Registration failed"),
                         NoToken, 0)
               /\ UNCHANGED <<users, nextId>>
          ELSE /\ users' = users \cup {user}
               /\ nextId' = nextId + 1
               /\ Goto(p, [f EXCEPT !.usr = user, !.wrote = TRUE], "register_gen")
    /\ UNCHANGED <<now, tokens, calls, window, env>>

\* generateTokenPair and the expiry of the row
RegisterGen(p) ==
    /\ proc[p].pc = "register_gen"
    /\ LET f == proc[p]
           tokenPayload == [userId |-> f.usr.id, email |-> f.usr.email]
           tokens_ == GenerateTokenPair(tokenPayload, now)
       IN Goto(p, [f EXCEPT !.new = tokens_.refreshToken,
                            !.exp = RefreshTokenExpiry(now)], "register_store")
    /\ UNCHANGED <<now, users, tokens, nextId, calls, window, env>>

\* prisma.refreshToken.create
RegisterStore(p) ==
    /\ proc[p].pc = "register_store"
    /\ LET f == proc[p]
       IN IF CanCreateToken(tokens, users, f.new, f.usr.id)
          THEN /\ tokens' = InsertToken(tokens, nextId, f.new, f.usr.id,
                                        f.exp, NoToken)
               /\ nextId' = nextId + 1
               /\ Return(p, [f EXCEPT !.wrote = TRUE], TRUE, NoErr, f.new, 0)
          ELSE /\ Return(p, f, FALSE,
                         Rethrow(Err("Unique constraint failed"),
                                 RegisterKeywords, "Registration failed"),
                         NoToken, 0)
               /\ UNCHANGED <<tokens, nextId>>
    /\ UNCHANGED <<now, users, calls, window, env>>

\* prisma.refreshToken.create rejects (the store cannot be reached or the
\* request times out): the catch block wraps the error, the account stays
RegisterStoreFails(p) ==
    /\ proc[p].pc = "register_store"
    /\ Return(p, proc[p], FALSE,
              Rethrow(Err("Can't reach database server"),
                      RegisterKeywords, "Registration failed"),
              NoToken, 0)
    /\ UNCHANGED <<now, users, tokens, nextId, calls, window, env>>

\* ---------------------------------------------------------------- login
\* AuthService.login, up to the first await
LoginBegin(p, email, pw) ==
    /\ CanBegin(p)
    /\ calls' = calls - 1
    /\ Goto(p, Enter(p, "login", NoToken, email, pw, 0), "login_find")
    /\ UNCHANGED <<now, users, tokens, nextId, window, env>>

\* the requests authLimiter lets through in one window (max)
AuthLimiterMax == 5

\* POST /login: authLimiter counts the request and answers 429 when the
\* count is above max; otherwise AuthController.login calls AuthService.login
LoginRequest(p, email, pw) ==
    /\ CanBegin(p)
    /\ calls' = calls - 1
    /\ LET totalHits == hits + 1
           f == [Enter(p, "login", NoToken, email, pw, 0)
                    EXCEPT !.limited = TRUE,
                           !.res = [status |-> 0, totalHits |-> totalHits]]
       IN IF totalHits > AuthLimiterMax
          THEN ReturnWith(p, [f EXCEPT !.res.status = 429], FALSE,
                          Err("Too many authentication attempts, please try again later"),
                          NoToken, 0, totalHits)
          ELSE GotoWith(p, f, "login_find", totalHits)
    /\ UNCHANGED <<now, users, tokens, nextId, window, env>>

\* findUnique by lower-cased email and the checks on the account.  The
\* argument `password` of comparePassword (line 141) names the const that
\* line 172 declares in the same try block, not the one of line 118: reading
\* it before line 172 has run throws a ReferenceError, which the catch block
\* wraps.  No call gets past line 141, so lines 146-180 (the update of
\* lastLoginAt, the token pair and its row) never run.
LoginFind(p) ==
    /\ proc[p].pc = "login_find"
    /\ LET f == proc[p]
           user == FindUserByEmail(users, ToLowerCase(f.email))
       IN IF user = NoUser
          THEN Return(p, f, FALSE, Err("Invalid email or password"), NoToken, 0)
          ELSE IF user.password = NoPassword
          THEN Return(p, f, FALSE,
                      Err("This account uses OAuth authentication"), NoToken, 0)
          ELSE Return(p, f, FALSE,
                      Rethrow(Err("Cannot access 'password' before initialization"),
                              LoginKeywords, "Login failed"), NoToken, 0)
    /\ UNCHANGED <<now, users, tokens, nextId, calls, window, env>>

\* ---------------------------------------------------------------- revokeAllTokens
\* AuthService.revokeAllTokens, up to the await
RevokeAllBegin(p, uid) ==
    /\ CanBegin(p)
    /\ calls' = calls - 1
    /\ LET f == Enter(p, "revokeAll", NoToken, "", "", uid)
       IN IF uid = 0
          THEN Return(p, f, FALSE, Err("User ID is required"), NoToken, 0)
          ELSE Goto(p, f, "revokeAll_update")
    /\ UNCHANGED <<now, users, tokens, nextId, window, env>>

\* updateMany({ where: { userId, isRevoked: false }, data: { isRevoked: true } })
RevokeAllUpdate(p) ==
    /\ proc[p].pc = "revokeAll_update"
    /\ LET f == proc[p]
           count == RevokeAllCount(tokens, f.uid, now)
       IN /\ tokens' = RevokeAllOf(tokens, f.uid)
          /\ Return(p, [f EXCEPT !.wrote = count > 0], TRUE, NoErr, NoToken, count)
    /\ UNCHANGED <<now, users, nextId, calls, window, env>>

\* ---------------------------------------------------------------- cleanupExpiredTokens
\* AuthService.cleanupExpiredTokens, up to the await: new Date() is taken
\* when the query is built
CleanupBegin(p) ==
    /\ CanBegin(p)
    /\ calls' = calls - 1
    /\ Goto(p, [Enter(p, "cleanup", NoToken, "", "", 0) EXCEPT !.cutoff = now],
            "cleanup_delete")
    /\ UNCHANGED <<now, users, tokens, nextId, window, env>>

\* deleteMany({ where: { OR: [{ expiresAt: { lt } }, { isRevoked: true }] } })
CleanupDelete(p) ==
    /\ proc[p].pc = "cleanup_delete"
    /\ LET f == proc[p]
           count == Cardinality({r \in tokens : Purgeable(r, f.cutoff)})
       IN /\ tokens' = PurgeTokens(tokens, f.cutoff)
          /\ Return(p, [f EXCEPT !.wrote = count > 0], TRUE, NoErr, NoToken, count)
    /\ UNCHANGED <<now, users, nextId, calls, window, env>>

\* would refreshToken(tok), run alone on the rows at time t, return a pair
RefreshSucceeds(rows, accounts, tok, t) ==
    /\ tok # EmptyToken
    /\ VerifyRefreshToken(tok, t) = NoErr
    /\ LET tokenRecord == FindToken(rows, tok)
       IN /\ tokenRecord # NoRow
          /\ ~tokenRecord.isRevoked
          /\ ~(tokenRecord.expiresAt < t)
          /\ LET user == FindUserById(accounts, tokenRecord.userId)
                 tokenPayload == [userId |-> user.id, email |-> user.email]
                 newTokens == GenerateTokenPair(tokenPayload, t)
             IN CanCreateToken(RevokeToken(rows, tok), accounts,
                               newTokens.refreshToken, user.id)

\* would logout(tok), run alone on the rows at time t, succeed
LogoutSucceeds(rows, tok, t) ==
    /\ tok # EmptyToken
    /\ VerifyRefreshToken(tok, t) = NoErr
    /\ LET tokenRecord == FindToken(rows, tok)
       IN tokenRecord # NoRow /\ ~tokenRecord.isRevoked

\* ---------------------------------------------------------------- JWTService.refreshTokens
\* the error refreshTokens throws at time t, NoErr when it returns
RefreshTokensError(tok, t) == VerifyRefreshToken(tok, t)

\* the refresh token of the pair refreshTokens returns at time t
RefreshTokens(tok, t) ==
    LET decoded == tok
        payload == [userId |-> decoded.userId, email |-> decoded.email]
    IN GenerateTokenPair(payload, t).refreshToken

\* JWTService.refreshTokens is synchronous and does not touch the store
JwtRefreshTokens(p, tok) ==
    /\ CanBegin(p)
    /\ calls' = calls - 1
    /\ LET f == Enter(p, "jwtRefresh", tok, "", "", 0)
           v == RefreshTokensError(tok, now)
       IN IF v # NoErr
          THEN Return(p, f, FALSE, v, NoToken, 0)
          ELSE Return(p, f, TRUE, NoErr, RefreshTokens(tok, now), 0)
    /\ UNCHANGED <<now, users, tokens, nextId, window, env>>

\* ---------------------------------------------------------------- OAuthService
\* the google ids of the profiles that sign in
ProviderIds == {"g1", "g2"}

OAuthKeywords == {}

\* the error generateAccessToken and generateRefreshToken throw for a payload
\* that has no userId field
PayloadError(payload) ==
    IF "userId" \in DOMAIN payload THEN NoErr
    ELSE Err("Payload must include userId")

\* a catch block of processOAuthProfile and of handleOAuthAuthentication
OAuthRethrow(e, prefix) ==
    Rethrow(Rethrow(e, OAuthKeywords, prefix), OAuthKeywords,
            "OAuth authentication failed")

\* handleOAuthAuthentication after processOAuthProfile returned user:
\* generateOAuthTokens hands the selected user row to generateAccessToken
\* as the payload; the row is stored only when the two tokens were signed
GenerateOAuthTokens(p, f, user) ==
    LET e == PayloadError(user)
    IN IF e # NoErr
       THEN Return(p, f, FALSE, OAuthRethrow(e, "Token generation failed"),
                   NoToken, 0)
       ELSE Goto(p, [f EXCEPT !.usr = user], "oauth_store")

\* the row linkOAuthAccount writes: provider, providerId, isEmailVerified and
\* lastLoginAt, nothing else
LinkOAuthAccount_ClearPassword(user, providerId, t) ==
    [user EXCEPT !.provider = "google", !.providerId = providerId,
                 !.isEmailVerified = TRUE, !.lastLoginAt = t,
                 !.password = NoPassword]

LinkOAuthAccount(user, providerId, t) ==
    [user EXCEPT !.provider = "google", !.providerId = providerId,
                 !.isEmailVerified = TRUE, !.lastLoginAt = t]

\* OAuthService.handleOAuthAuthentication, up to the first await of
\* findOrCreateOAuthUser: the address is taken from the profile as it is
OAuthBegin(p, email, pid) ==
    /\ CanBegin(p)
    /\ calls' = calls - 1
    /\ Goto(p, Enter(p, "oauth", NoToken, email, pid, 0), "oauth_find")
    /\ UNCHANGED <<now, users, tokens, nextId, window, env>>

\* prisma.user.findFirst({ where: { providerId, provider } })
OAuthFind(p) ==
    /\ proc[p].pc = "oauth_find"
    /\ LET f == proc[p]
           found == {u \in users : u.providerId = f.pw /\ u.provider = "google"}
       IN IF found # {}
          THEN \E user \in found :
                   Goto(p, [f EXCEPT !.usr = user, !.uid = user.id], "oauth_update")
          ELSE Goto(p, f, "oauth_findEmail")
    /\ UNCHANGED <<now, users, tokens, nextId, calls, window, env>>

\* prisma.user.findUnique({ where: { email } }): the address is compared as
\* it came from the provider
OAuthFindEmail(p) ==
    /\ proc[p].pc = "oauth_findEmail"
    /\ LET f == proc[p]
           user == FindUserByEmail(users, f.email)
       IN IF user # NoUser
          THEN Goto(p, [f EXCEPT !.usr = user, !.uid = user.id], "oauth_link")
          ELSE Goto(p, f, "oauth_create")
    /\ UNCHANGED <<now, users, tokens, nextId, calls, window, env>>

\* updateOAuthUser: prisma.user.update of lastLoginAt, which throws when the
\* account is gone; then generateOAuthTokens
OAuthUpdate(p) ==
    /\ proc[p].pc = "oauth_update"
    /\ LET f == proc[p]
           current == FindUserById(users, f.uid)
       IN IF current = NoUser
          THEN /\ Return(p, f, FALSE,
                         OAuthRethrow(Err("Record to update not found"),
                                      "OAuth profile processing failed"),
                         NoToken, 0)
               /\ UNCHANGED users
          ELSE LET user == [current EXCEPT !.lastLoginAt = now]
               IN /\ users' = (users \ {current}) \cup {user}
                  /\ GenerateOAuthTokens(p, [f EXCEPT !.wrote = TRUE], user)
    /\ UNCHANGED <<now, tokens, nextId, calls, window, env>>

\* linkOAuthAccount: prisma.user.update; then generateOAuthTokens
OAuthLink(p) ==
    /\ proc[p].pc = "oauth_link"
    /\ LET f == proc[p]
           current == FindUserById(users, f.uid)
       IN IF current = NoUser
          THEN /\ Return(p, f, FALSE,
                         OAuthRethrow(Err("Record to update not found"),
                                      "OAuth profile processing failed"),
                         NoToken, 0)
               /\ UNCHANGED users
          ELSE LET user == LinkOAuthAccount(current, f.pw, now)
               IN /\ users' = (users \ {current}) \cup {user}
                  /\ GenerateOAuthTokens(p, [f EXCEPT !.wrote = TRUE], user)
    /\ UNCHANGED <<now, tokens, nextId, calls, window, env>>

\* createOAuthUser: prisma.user.create with the address of the profile and no
\* password, on which the unique index on email decides; then
\* generateOAuthTokens
OAuthCreate(p) ==
    /\ proc[p].pc = "oauth_create"
    /\ LET f == proc[p]
           user == [id |-> nextId, email |-> f.email, password |-> NoPassword,
                    provider |-> "google", providerId |-> f.pw,
                    isEmailVerified |-> TRUE, lastLoginAt |-> now]
       IN IF FindUserByEmail(users, user.email) # NoUser
          THEN /\ Return(p, f, FALSE,
                         OAuthRethrow(Err("Unique constraint failed"),
                                      "OAuth profile processing failed"),
                         NoToken, 0)
               /\ UNCHANGED <<users, nextId>>
          ELSE /\ users' = users \cup {user}
               /\ nextId' = nextId + 1
               /\ GenerateOAuthTokens(p, [f EXCEPT !.uid = user.id,
                                                   !.wrote = TRUE], user)
    /\ UNCHANGED <<now, tokens, calls, window, env>>

\* ---------------------------------------------------------------- unlink
\* the answer of OAuthController.unlinkOAuthAccount to an error of the service
UnlinkResponse(e) ==
    IF e.msg = "User not found"
    THEN [status |-> 404, code |-> "USER_NOT_FOUND"]
    ELSE IF e.msg = "Cannot unlink OAuth account without setting a password first"
    THEN [status |-> 400, code |-> "UNLINK_NOT_ALLOWED"]
    ELSE [status |-> 500, code |-> "OAUTH_UNLINK_FAILED"]

\* the service throws e: the controller answers, the history keeps the row
\* the service had read
UnlinkFail(p, f, before, e) ==
    LET r == UnlinkResponse(e)
    IN Return(p, [f EXCEPT !.res = [status |-> r.status, code |-> r.code,
                                    before |-> before, after |-> before]],
              FALSE, Rethrow(e, {}, "OAuth account unlinking failed"),
              NoToken, 0)

\* OAuthService.unlinkOAuthAccount(userId), up to the first await
UnlinkBegin(p, uid) ==
    /\ CanBegin(p)
    /\ calls' = calls - 1
    /\ Goto(p, Enter(p, "unlink", NoToken, "", "", uid), "unlink_find")
    /\ UNCHANGED <<now, users, tokens, nextId, window, env>>

\* UnlinkFind without the check of the password
UnlinkFind_NoPasswordCheck(p) ==
    /\ proc[p].pc = "unlink_find"
    /\ LET f == proc[p]
           user == FindUserById(users, f.uid)
       IN IF user = NoUser
          THEN UnlinkFail(p, f, user, Err("User not found"))
          ELSE Goto(p, [f EXCEPT !.usr = user], "unlink_update")
    /\ UNCHANGED <<now, users, tokens, nextId, calls, window, env>>

\* prisma.user.findUnique({ where: { id }, select: { password, provider } })
\* and the two checks on the row
UnlinkFind(p) ==
    /\ proc[p].pc = "unlink_find"
    /\ LET f == proc[p]
           user == FindUserById(users, f.uid)
       IN IF user = NoUser
          THEN UnlinkFail(p, f, user, Err("User not found"))
          ELSE IF user.password = NoPassword
          THEN UnlinkFail(p, f, user,
                   Err("Cannot unlink OAuth account without setting a password first"))
          ELSE Goto(p, [f EXCEPT !.usr = user], "unlink_update")
    /\ UNCHANGED <<now, users, tokens, nextId, calls, window, env>>

\* prisma.user.update({ data: { provider: 'local', providerId: null } })
UnlinkUpdate(p) ==
    /\ proc[p].pc = "unlink_update"
    /\ LET f == proc[p]
           current == FindUserById(users, f.uid)
           updatedUser == [current EXCEPT !.provider = "local",
                                          !.providerId = ""]
       IN IF current = NoUser
          THEN /\ UnlinkFail(p, f, f.usr, Err("Record to update not found"))
               /\ UNCHANGED users
          ELSE /\ users' = (users \ {current}) \cup {updatedUser}
               /\ Return(p, [f EXCEPT !.wrote = TRUE,
                                      !.res = [status |-> 200, code |-> "",
                                               before |-> f.usr,
                                               after |-> updatedUser]],
                         TRUE, NoErr, NoToken, 0)
    /\ UNCHANGED <<now, tokens, nextId, calls, window, env>>

\* ---------------------------------------------------------------- status
\* the body OAuthController.getOAuthStatus builds from req.user; a field that
\* req.user does not have reads as undefined
GetOAuthStatus(reqUser) ==
    LET hasProvider == "provider" \in DOMAIN reqUser
    IN [status |-> 200,
        isConnected |-> IF hasProvider THEN reqUser.provider # "local"
                        ELSE TRUE,
        provider |-> IF hasProvider /\ reqUser.provider # ""
                     THEN reqUser.provider ELSE "local"]

\* GET /oauth/status with tok as the bearer token: authenticateToken, then
\* getOAuthStatus
GetOAuthStatusCall(p, tok) ==
    /\ CanBegin(p)
    /\ calls' = calls - 1
    /\ LET a == AuthenticateToken(tok, now)
           f == Enter(p, "getOAuthStatus", tok, "", "", 0)
       IN IF a.status # 200
          THEN Return(p, [f EXCEPT !.res = a], FALSE, Err(a.code), NoToken, 0)
          ELSE Return(p, [f EXCEPT !.uid = a.user.id,
                                   !.res = GetOAuthStatus(a.user)],
                      TRUE, NoErr, NoToken, 0)
    /\ UNCHANGED <<now, users, tokens, nextId, window, env>>

\* ---------------------------------------------------------------- token checks
\* the values a signing secret can have in the environment; "" is unset
SecretInputs == {"", "k1", "k2"}

\* validateEnvironment: every required variable is set, or the process exits
ValidateEnvironment(e) == e.accessSecret # "" /\ e.refreshSecret # ""

\* access tokens of a deployment that shares the access secret and signs with
\* another issuer or audience, or with none
ForeignTokens(t) ==
    {[kind |-> "access", userId |-> 1, email |-> "a@x.com", iat |-> SecOf(t),
      key |-> env.accessSecret, iss |-> i, aud |-> a] :
        i \in {"", "other-service", Issuer},
        a \in {"", "other-client", Audience}}
      \ {GenerateAccessToken([userId |-> 1, email |-> "a@x.com"], t)}

\* a call of JWTService.verifyAccessToken
VerifyAccessTokenCall(p, tok) ==
    /\ CanBegin(p)
    /\ calls' = calls - 1
    /\ LET v == VerifyAccessToken(tok, now)
       IN Return(p, Enter(p, "verifyAccessToken", tok, "", "", 0), v = NoErr,
                 v, NoToken, 0)
    /\ UNCHANGED <<now, users, tokens, nextId, window, env>>

\* a call of JWTService.verifyRefreshToken
VerifyRefreshTokenCall(p, tok) ==
    /\ CanBegin(p)
    /\ calls' = calls - 1
    /\ LET v == VerifyRefreshToken(tok, now)
       IN Return(p, Enter(p, "verifyRefreshToken", tok, "", "", 0), v = NoErr,
                 v, NoToken, 0)
    /\ UNCHANGED <<now, users, tokens, nextId, window, env>>

\* a request that passes through the authenticateToken middleware with tok
\* as its bearer token
AuthenticateTokenCall(p, tok) ==
    /\ CanBegin(p)
    /\ calls' = calls - 1
    /\ LET a == AuthenticateToken(tok, now)
           f == [Enter(p, "authenticateToken", tok, "", "", 0)
                    EXCEPT !.res = a]
       IN Return(p, f, a.status = 200, Err(a.code), NoToken, 0)
    /\ UNCHANGED <<now, users, tokens, nextId, window, env>>

\* ---------------------------------------------------------------- PasswordService
\* a call of validatePasswordStrength
ValidatePasswordStrengthCall(p, sh) ==
    /\ CanBegin(p)
    /\ calls' = calls - 1
    /\ LET v == ValidatePasswordStrength(sh)
           f == [Enter(p, "validatePasswordStrength", NoToken, "", "", 0)
                    EXCEPT !.res = [status |-> 0, input |-> sh,
                                    isValid |-> v.isValid,
                                    errors |-> v.errors]]
       IN Return(p, f, v.isValid, NoErr, NoToken, 0)
    /\ UNCHANGED <<now, users, tokens, nextId, window, env>>

\* comparePassword(pw2, await hashPassword(pw))
ComparePasswordCall(p, pw, pw2) ==
    /\ CanBegin(p)
    /\ calls' = calls - 1
    /\ LET hashed == HashPassword(pw)
           f == [Enter(p, "comparePassword", NoToken, "", pw2, 0)
                    EXCEPT !.res = [status |-> 0, hashedFrom |-> pw,
                                    result |-> ComparePassword(pw2, hashed)]]
       IN Return(p, f, TRUE, NoErr, NoToken, 0)
    /\ UNCHANGED <<now, users, tokens, nextId, window, env>>

\* ---------------------------------------------------------------- UserService
\* UserService.updateUserProfile(userId, { email }), up to the first await
UpdateProfileBegin(p, uid, email) ==
    /\ CanBegin(p)
    /\ calls' = calls - 1
    /\ LET f == Enter(p, "updateProfile", NoToken, email, "", uid)
       IN IF uid = 0
          THEN Return(p, f, FALSE, Err("User ID is required"), NoToken, 0)
          ELSE Goto(p, f, "profile_find")
    /\ UNCHANGED <<now, users, tokens, nextId, window, env>>

\* userRepository.findById, and the comparison of the new address with the
\* stored one
UpdateProfileFind(p) ==
    /\ proc[p].pc = "profile_find"
    /\ LET f == proc[p]
           existingUser == FindUserById(users, f.uid)
       IN IF existingUser = NoUser
          THEN Return(p, f, FALSE, Err("User not found"), NoToken, 0)
          ELSE IF f.email # existingUser.email
          THEN Goto(p, f, "profile_emailExists")
          ELSE Goto(p, f, "profile_update")
    /\ UNCHANGED <<now, users, tokens, nextId, calls, window, env>>

\* userRepository.emailExists(updates.email, userId)
UpdateProfileEmailExists(p) ==
    /\ proc[p].pc = "profile_emailExists"
    /\ LET f == proc[p]
           emailExists == \E u \in users : u.email = f.email /\ u.id # f.uid
       IN IF emailExists
          THEN Return(p, f, FALSE, Err("Email is already in use"), NoToken, 0)
          ELSE Goto(p, f, "profile_update")
    /\ UNCHANGED <<now, users, tokens, nextId, calls, window, env>>

\* userRepository.update(userId, { email }): it throws when the account is
\* gone or the address is taken
UpdateProfileUpdate(p) ==
    /\ proc[p].pc = "profile_update"
    /\ LET f == proc[p]
           current == FindUserById(users, f.uid)
       IN IF current = NoUser
          THEN /\ Return(p, f, FALSE, Err("Record to update not found"),
                         NoToken, 0)
               /\ UNCHANGED users
          ELSE IF \E u \in users : u.email = f.email /\ u.id # f.uid
          THEN /\ Return(p, f, FALSE, Err("Unique constraint failed"),
                         NoToken, 0)
               /\ UNCHANGED users
          ELSE /\ users' = (users \ {current})
                              \cup {[current EXCEPT !.email = f.email]}
               /\ Return(p, [f EXCEPT !.wrote = TRUE], TRUE, NoErr, NoToken, 0)
    /\ UNCHANGED <<now, tokens, nextId, calls, window, env>>

\* UserService.deleteUser, up to the first await
DeleteUserBegin(p, uid) ==
    /\ CanBegin(p)
    /\ calls' = calls - 1
    /\ LET f == Enter(p, "deleteUser", NoToken, "", "", uid)
       IN IF uid = 0
          THEN Return(p, f, FALSE, Err("User ID is required"), NoToken, 0)
          ELSE Goto(p, f, "delete_find")
    /\ UNCHANGED <<now, users, tokens, nextId, window, env>>

\* userRepository.findById
DeleteUserFind(p) ==
    /\ proc[p].pc = "delete_find"
    /\ LET f == proc[p]
           existingUser == FindUserById(users, f.uid)
       IN IF existingUser = NoUser
          THEN Return(p, f, FALSE, Err("User not found"), NoToken, 0)
          ELSE Goto(p, [f EXCEPT !.email = existingUser.email], "delete_delete")
    /\ UNCHANGED <<now, users, tokens, nextId, calls, window, env>>

\* userRepository.delete(userId): it throws when the account is gone
DeleteUserDelete(p) ==
    /\ proc[p].pc = "delete_delete"
    /\ LET f == proc[p]
           current == FindUserById(users, f.uid)
       IN IF current = NoUser
          THEN /\ Return(p, f, FALSE, Err("Record to delete does not exist"),
                         NoToken, 0)
               /\ UNCHANGED <<users, tokens>>
          ELSE /\ users' = users \ {current}
               /\ tokens' = CascadeDelete(tokens, f.uid)
               /\ Return(p, [f EXCEPT !.wrote = TRUE], TRUE, NoErr, NoToken, 0)
    /\ UNCHANGED <<now, nextId, calls, window, env>>

\* ---------------------------------------------------------------- specifications
\* the calls clients make while other calls are in progress
Begin(p) ==
    \/ \E e \in ConcEmails : RegisterBegin(p, e, "Aa1!aaaa")
    \/ \E e \in ConcEmails : LoginBegin(p, e, "Aa1!aaaa")
    \/ \E t \in issued : LogoutBegin(p, t)
    \/ \E t \in issued : RefreshBegin(p, t)
    \/ \E u \in {a.id : a \in users} : RevokeAllBegin(p, u)
    \/ CleanupBegin(p)
    \/ \E e \in ConcEmails : \E g \in ProviderIds : OAuthBegin(p, e, g)

Step(p) ==
    \/ RegisterFind(p) \/ RegisterCreate(p) \/ RegisterGen(p) \/ RegisterStore(p)
    \/ LoginFind(p)
    \/ LogoutFind(p) \/ LogoutUpdate(p)
    \/ RefreshFind(p) \/ RefreshCheck(p) \/ RefreshUpdate(p) \/ RefreshGen(p)
    \/ RefreshCreate(p)
    \/ RevokeAllUpdate(p)
    \/ CleanupDelete(p)
    \/ OAuthFind(p) \/ OAuthFindEmail(p) \/ OAuthUpdate(p) \/ OAuthLink(p)
    \/ OAuthCreate(p)

\* handlers run concurrently: any handler may take its next step
Next ==
    \/ Tick
    \/ \E p \in Procs : Begin(p)
    \/ \E p \in Procs : Step(p)

Spec == Init /\ [][Next]_vars

\* the same handlers, with the last completed call kept in the history
PairInit ==
    /\ now = 0
    /\ users = {}
    /\ tokens = {}
    /\ nextId = 1
    /\ issued = {}
    /\ proc = [p \in Procs |-> Idle]
    /\ log = <<>>
    /\ calls = MaxCalls
    /\ window = 1
    /\ env = TestEnv
    /\ bearer = {}
    /\ hits = 0

PairSpec == PairInit /\ [][Next]_vars

\* one call at a time: a call begins only when no other is in progress
Quiet == \A p \in Procs : proc[p].pc = "idle"

\* the calls of one client session after another, each made with arguments
\* the client holds
SeqBegin(p) ==
    \/ \E e \in EmailInputs : RegisterBegin(p, e, "Aa1!aaaa")
    \/ \E e \in EmailInputs : LoginBegin(p, e, "Aa1!aaaa")
    \/ \E t \in issued : LogoutBegin(p, t)
    \/ \E t \in issued : RefreshBegin(p, t)
    \/ \E t \in issued : JwtRefreshTokens(p, t)

SeqStep(p) ==
    \/ RegisterFind(p) \/ RegisterCreate(p) \/ RegisterGen(p) \/ RegisterStore(p)
    \/ LoginFind(p)
    \/ LogoutFind(p) \/ LogoutUpdate(p)
    \/ RefreshFind(p) \/ RefreshCheck(p) \/ RefreshUpdate(p) \/ RefreshGen(p)
    \/ RefreshCreate(p)

SeqNext ==
    \/ Quiet /\ Tick
    \/ Quiet /\ SeqBegin("p1")
    \/ SeqStep("p1")

SeqInit ==
    /\ now = 0
    /\ users = {}
    /\ tokens = {}
    /\ nextId = 1
    /\ issued = {}
    /\ proc = [p \in Procs |-> Idle]
    /\ log = <<>>
    /\ calls = SeqCalls
    /\ window = LogLen
    /\ env = TestEnv
    /\ bearer = {}
    /\ hits = 0

SeqSpec == SeqInit /\ [][SeqNext]_vars

\* sessions of one account while the purge runs: any handler may take its
\* next step, and the history keeps the last call
RaceInit ==
    /\ now = 0
    /\ users = {}
    /\ tokens = {}
    /\ nextId = 1
    /\ issued = {}
    /\ proc = [p \in Procs |-> Idle]
    /\ log = <<>>
    /\ calls = RaceCalls
    /\ window = 1
    /\ env = TestEnv
    /\ bearer = {}
    /\ hits = 0

RaceBegin(p) ==
    \/ \E e \in ConcEmails : RegisterBegin(p, e, "Aa1!aaaa")
    \/ \E t \in issued : LogoutBegin(p, t)
    \/ \E t \in issued : RefreshBegin(p, t)
    \/ CleanupBegin(p)

RaceStep(p) ==
    \/ RegisterFind(p) \/ RegisterCreate(p) \/ RegisterGen(p) \/ RegisterStore(p)
    \/ LogoutFind(p) \/ LogoutUpdate(p)
    \/ RefreshFind(p) \/ RefreshCheck(p) \/ RefreshUpdate(p) \/ RefreshGen(p)
    \/ RefreshCreate(p)
    \/ CleanupDelete(p)

RaceNext ==
    \/ Tick
    \/ \E p \in Procs : RaceBegin(p)
    \/ \E p \in Procs : RaceStep(p)

RaceSpec == RaceInit /\ [][RaceNext]_vars

\* accounts being created, signed in to and edited by calls that arrive
\* within one tick of the clock: any handler may take its next step, and the
\* history keeps the last two calls
AcctInit ==
    /\ now = 0
    /\ users = {}
    /\ tokens = {}
    /\ nextId = 1
    /\ issued = {}
    /\ proc = [p \in Procs |-> Idle]
    /\ log = <<>>
    /\ calls = AcctCalls
    /\ window = 2
    /\ env = TestEnv
    /\ bearer = {}
    /\ hits = 0

AcctBegin(p) ==
    \/ \E e \in EmailInputs : RegisterBegin(p, e, "Aa1!aaaa")
    \/ \E e \in EmailInputs : \E pw \in {"Aa1!aaaa", "Bb2?bbbb"} :
          LoginBegin(p, e, pw)
    \/ \E e \in EmailInputs : \E g \in ProviderIds : OAuthBegin(p, e, g)
    \/ \E u \in {a.id : a \in users} : \E e \in EmailInputs :
          UpdateProfileBegin(p, u, e)
    \/ \E u \in {a.id : a \in users} : UnlinkBegin(p, u)
    \/ \E t \in bearer : GetOAuthStatusCall(p, t)

AcctStep(p) ==
    \/ RegisterFind(p) \/ RegisterCreate(p) \/ RegisterGen(p) \/ RegisterStore(p)
    \/ LoginFind(p)
    \/ OAuthFind(p) \/ OAuthFindEmail(p) \/ OAuthUpdate(p) \/ OAuthLink(p)
    \/ OAuthCreate(p)
    \/ UpdateProfileFind(p) \/ UpdateProfileEmailExists(p)
    \/ UpdateProfileUpdate(p)
    \/ UnlinkFind(p) \/ UnlinkUpdate(p)

AcctNext ==
    \/ \E p \in Procs : AcctBegin(p)
    \/ \E p \in Procs : AcctStep(p)

AcctSpec == AcctInit /\ [][AcctNext]_vars

\* the sessions of two accounts and the administrative calls on them, one
\* call at a time; the history keeps the last two calls
AdminInit ==
    /\ now = 0
    /\ users = {}
    /\ tokens = {}
    /\ nextId = 1
    /\ issued = {}
    /\ proc = [p \in Procs |-> Idle]
    /\ log = <<>>
    /\ calls = AdminCalls
    /\ window = 2
    /\ env = TestEnv
    /\ bearer = {}
    /\ hits = 0

AdminBegin(p) ==
    \/ \E e \in EmailInputs : RegisterBegin(p, e, "Aa1!aaaa")
    \/ \E e \in EmailInputs : LoginBegin(p, e, "Aa1!aaaa")
    \/ \E t \in issued : LogoutBegin(p, t)
    \/ \E t \in issued : RefreshBegin(p, t)
    \/ \E u \in {a.id : a \in users} : RevokeAllBegin(p, u)
    \/ CleanupBegin(p)
    \/ \E u \in {a.id : a \in users} : DeleteUserBegin(p, u)

AdminStep(p) ==
    \/ RegisterFind(p) \/ RegisterCreate(p) \/ RegisterGen(p) \/ RegisterStore(p)
    \/ LoginFind(p)
    \/ LogoutFind(p) \/ LogoutUpdate(p)
    \/ RefreshFind(p) \/ RefreshCheck(p) \/ RefreshUpdate(p) \/ RefreshGen(p)
    \/ RefreshCreate(p)
    \/ RevokeAllUpdate(p)
    \/ CleanupDelete(p)
    \/ DeleteUserFind(p) \/ DeleteUserDelete(p)

AdminNext ==
    \/ Quiet /\ Tick
    \/ Quiet /\ AdminBegin("p1")
    \/ AdminStep("p1")

AdminSpec == AdminInit /\ [][AdminNext]_vars

\* ---------------------------------------------------------------- properties
\* AuthController.refreshToken answers 401 INVALID_REFRESH_TOKEN for these
\* errors and 500 for every other one
\* ---------------------------------------------------------------- tokens of
\* one kind presented where the other kind is expected, one call at a time,
\* under every environment that passes validateEnvironment
TokenInit ==
    /\ now = 0
    /\ users = {}
    /\ tokens = {}
    /\ nextId = 1
    /\ issued = {}
    /\ proc = [p \in Procs |-> Idle]
    /\ log = <<>>
    /\ calls = TokenCalls
    /\ window = 1
    /\ env \in [accessSecret : SecretInputs, refreshSecret : SecretInputs]
    /\ ValidateEnvironment(env)
    /\ bearer = {}
    /\ hits = 0

TokenBegin(p) ==
    \/ \E e \in ConcEmails : RegisterBegin(p, e, "Aa1!aaaa")
    \/ \E t \in issued \cup bearer : LogoutBegin(p, t)
    \/ \E t \in issued \cup bearer : RefreshBegin(p, t)
    \/ \E t \in issued \cup bearer \cup ForeignTokens(now) :
          VerifyAccessTokenCall(p, t)
    \/ \E t \in issued \cup bearer : VerifyRefreshTokenCall(p, t)
    \/ \E t \in issued \cup bearer \cup ForeignTokens(now) :
          AuthenticateTokenCall(p, t)

TokenStep(p) ==
    \/ RegisterFind(p) \/ RegisterCreate(p) \/ RegisterGen(p) \/ RegisterStore(p)
    \/ LogoutFind(p) \/ LogoutUpdate(p)
    \/ RefreshFind(p) \/ RefreshCheck(p) \/ RefreshUpdate(p) \/ RefreshGen(p)
    \/ RefreshCreate(p)

TokenNext ==
    \/ Quiet /\ Tick
    \/ Quiet /\ TokenBegin("p1")
    \/ TokenStep("p1")

TokenSpec == TokenInit /\ [][TokenNext]_vars

\* ---------------------------------------------------------------- the
\* registrations of one client, one at a time, with a store whose create of
\* the refresh-token row may be rejected
FaultInit ==
    /\ now = 0
    /\ users = {}
    /\ tokens = {}
    /\ nextId = 1
    /\ issued = {}
    /\ proc = [p \in Procs |-> Idle]
    /\ log = <<>>
    /\ calls = FaultCalls
    /\ window = LogLen
    /\ env = TestEnv
    /\ bearer = {}
    /\ hits = 0

FaultNext ==
    \/ Quiet /\ Tick
    \/ Quiet /\ \E e \in EmailInputs : RegisterBegin("p1", e, "Aa1!aaaa")
    \/ RegisterFind("p1") \/ RegisterCreate("p1") \/ RegisterGen("p1")
    \/ RegisterStore("p1")
    \/ RegisterStoreFails("p1")

FaultSpec == FaultInit /\ [][FaultNext]_vars

\* ---------------------------------------------------------------- the
\* bearer of an access token whose session is ended, rotated, revoked or
\* whose account is deleted, one call at a time
BearerInit ==
    /\ now = 0
    /\ users = {}
    /\ tokens = {}
    /\ nextId = 1
    /\ issued = {}
    /\ proc = [p \in Procs |-> Idle]
    /\ log = <<>>
    /\ calls = BearerCalls
    /\ window = 2
    /\ env = TestEnv
    /\ bearer = {}
    /\ hits = 0

BearerBegin(p) ==
    \/ \E e \in ConcEmails : RegisterBegin(p, e, "Aa1!aaaa")
    \/ \E t \in issued : LogoutBegin(p, t)
    \/ \E t \in issued : RefreshBegin(p, t)
    \/ \E u \in {a.id : a \in users} : RevokeAllBegin(p, u)
    \/ \E u \in {a.id : a \in users} : DeleteUserBegin(p, u)
    \/ \E t \in bearer : AuthenticateTokenCall(p, t)

BearerStep(p) ==
    \/ RegisterFind(p) \/ RegisterCreate(p) \/ RegisterGen(p) \/ RegisterStore(p)
    \/ LogoutFind(p) \/ LogoutUpdate(p)
    \/ RefreshFind(p) \/ RefreshCheck(p) \/ RefreshUpdate(p) \/ RefreshGen(p)
    \/ RefreshCreate(p)
    \/ RevokeAllUpdate(p)
    \/ DeleteUserFind(p) \/ DeleteUserDelete(p)

BearerNext ==
    \/ Quiet /\ Tick
    \/ Quiet /\ BearerBegin("p1")
    \/ BearerStep("p1")

BearerSpec == BearerInit /\ [][BearerNext]_vars

\* ---------------------------------------------------------------- one
\* account whose address is edited while its session is rotated, ended and
\* purged, one call at a time
PurgeInit ==
    /\ now = 0
    /\ users = {}
    /\ tokens = {}
    /\ nextId = 1
    /\ issued = {}
    /\ proc = [p \in Procs |-> Idle]
    /\ log = <<>>
    /\ calls = PurgeCalls
    /\ window = 1
    /\ env = TestEnv
    /\ bearer = {}
    /\ hits = 0

PurgeBegin(p) ==
    \/ \E e \in ConcEmails : RegisterBegin(p, e, "Aa1!aaaa")
    \/ \E u \in {a.id : a \in users} : \E e \in EmailInputs :
          UpdateProfileBegin(p, u, e)
    \/ \E t \in issued : RefreshBegin(p, t)
    \/ \E t \in issued : LogoutBegin(p, t)
    \/ CleanupBegin(p)

PurgeStep(p) ==
    \/ RegisterFind(p) \/ RegisterCreate(p) \/ RegisterGen(p) \/ RegisterStore(p)
    \/ UpdateProfileFind(p) \/ UpdateProfileEmailExists(p)
    \/ UpdateProfileUpdate(p)
    \/ RefreshFind(p) \/ RefreshCheck(p) \/ RefreshUpdate(p) \/ RefreshGen(p)
    \/ RefreshCreate(p)
    \/ LogoutFind(p) \/ LogoutUpdate(p)
    \/ CleanupDelete(p)

PurgeNext ==
    \/ Quiet /\ Tick
    \/ Quiet /\ PurgeBegin("p1")
    \/ PurgeStep("p1")

PurgeSpec == PurgeInit /\ [][PurgeNext]_vars

\* ---------------------------------------------------------------- one
\* session, one call at a time, with tokens that are malformed, expired,
\* revoked or purged
RejectInit ==
    /\ now = 0
    /\ users = {}
    /\ tokens = {}
    /\ nextId = 1
    /\ issued = {}
    /\ proc = [p \in Procs |-> Idle]
    /\ log = <<>>
    /\ calls = RejectCalls
    /\ window = 1
    /\ env = TestEnv
    /\ bearer = {}
    /\ hits = 0

RejectBegin(p) ==
    \/ \E e \in ConcEmails : RegisterBegin(p, e, "Aa1!aaaa")
    \/ \E t \in issued \cup {Garbage} : LogoutBegin(p, t)
    \/ \E t \in issued \cup {Garbage} : RefreshBegin(p, t)
    \/ CleanupBegin(p)

RejectStep(p) ==
    \/ RegisterFind(p) \/ RegisterCreate(p) \/ RegisterGen(p) \/ RegisterStore(p)
    \/ LogoutFind(p) \/ LogoutUpdate(p)
    \/ RefreshFind(p) \/ RefreshCheck(p) \/ RefreshUpdate(p) \/ RefreshGen(p)
    \/ RefreshCreate(p)
    \/ CleanupDelete(p)

RejectNext ==
    \/ Quiet /\ Tick
    \/ Quiet /\ RejectBegin("p1")
    \/ RejectStep("p1")

RejectSpec == RejectInit /\ [][RejectNext]_vars

\* ---------------------------------------------------------------- login
\* requests of one client, one at a time.  The window of authLimiter is 15
\* minutes, so every request of a behaviour falls into the same window
LimitInit ==
    /\ now = 0
    /\ users = {}
    /\ tokens = {}
    /\ nextId = 1
    /\ issued = {}
    /\ proc = [p \in Procs |-> Idle]
    /\ log = <<>>
    /\ calls = LimitCalls
    /\ window = 1
    /\ env = TestEnv
    /\ bearer = {}
    /\ hits = 0

LimitNext ==
    \/ Quiet /\ \E e \in EmailInputs : \E pw \in {"Aa1!aaaa", "Bb2?bbbb"} :
                   LoginRequest("p1", e, pw)
    \/ LoginFind("p1")
    \/ Tick

LimitSpec == LimitInit /\ [][LimitNext]_vars

\* ---------------------------------------------------------------- the
\* functions of PasswordService applied to the passwords of the model
PasswordInit ==
    /\ now = 0
    /\ users = {}
    /\ tokens = {}
    /\ nextId = 1
    /\ issued = {}
    /\ proc = [p \in Procs |-> Idle]
    /\ log = <<>>
    /\ calls = PasswordCalls
    /\ window = 1
    /\ env = TestEnv
    /\ bearer = {}
    /\ hits = 0

PasswordNext ==
    \/ \E sh \in PasswordShapes : ValidatePasswordStrengthCall("p1", sh)
    \/ \E pw \in PasswordInputs : \E pw2 \in PasswordInputs :
          ComparePasswordCall("p1", pw, pw2)

PasswordSpec == PasswordInit /\ [][PasswordNext]_vars

\* ---------------------------------------------------------------- properties
Unauthorized(e) == \E kw \in RefreshKeywords : Includes(e, kw)

AlreadyRevoked == Err("Token already revoked")

\* the answer of AuthController.logout to an error of the service
LogoutResponse(e) ==
    IF \E kw \in {"Invalid refresh token", "already revoked"} : Includes(e, kw)
    THEN [status |-> 400, code |-> "INVALID_REFRESH_TOKEN"]
    ELSE [status |-> 500, code |-> "LOGOUT_FAILED"]

\* the answer to an error of the service, without the keyword 'expired'
RefreshResponse_NoExpired(e) ==
    IF \E kw \in {"Invalid refresh token", "revoked"} : Includes(e, kw)
    THEN [status |-> 401, code |-> "INVALID_REFRESH_TOKEN"]
    ELSE [status |-> 500, code |-> "TOKEN_REFRESH_FAILED"]

\* the answer of AuthController.refreshToken to an error of the service
RefreshResponse(e) ==
    IF \E kw \in {"Invalid refresh token", "revoked", "expired"} :
           Includes(e, kw)
    THEN [status |-> 401, code |-> "INVALID_REFRESH_TOKEN"]
    ELSE [status |-> 500, code |-> "TOKEN_REFRESH_FAILED"]

\* rows that a rotation of tok created
Descendants(tok) == {r \in tokens : r.parent = tok}

Last == log[Len(log)]

\* C1: for every ACTIVE refresh token T (its row ACTIVE, its JWT not
\* expired), of two refreshToken(T) calls in sequence the first succeeds and
\* the second fails with an Unauthorized error, and afterwards exactly one
\* new ACTIVE row was created from T.
C1_RotationExactlyOnce ==
    \A i \in 1..Len(log) :
        (log[i].op = "refresh" /\ log[i].wasActive /\ log[i].unexpired) =>
            /\ log[i].ok
            /\ (i < Len(log) /\ log[i+1].op = "refresh"
                    /\ log[i+1].tok = log[i].tok) =>
                   /\ ~log[i+1].ok
                   /\ Unauthorized(log[i+1].err)
                   /\ Cardinality(Descendants(log[i].tok)) = 1
                   /\ (i + 1 = Len(log) /\ Quiet) =>
                          \A r \in Descendants(log[i].tok) : ~r.isRevoked

\* C2: of two concurrent refreshToken(T) calls on the same ACTIVE token at
\* most one succeeds, so at most one descendant row is ever minted from T.
C2_AtMostOneDescendant ==
    \A t \in issued : Cardinality(Descendants(t)) <= 1

C5_RefreshOnlyIfActive ==
    \A i \in 1..Len(log) :
        (log[i].op = "refresh" /\ log[i].ok) =>
            log[i].wasActive /\ ~log[i].wasExpired

\* C6: logout(T) succeeds only if T's row is ACTIVE at the instant of the
\* call; on a row that is past its expiresAt it fails and changes nothing.
C6_LogoutOnlyIfActive ==
    \A i \in 1..Len(log) :
        log[i].op = "logout" =>
            /\ log[i].ok => log[i].wasActive
            /\ log[i].wasExpired => (~log[i].ok /\ ~log[i].wrote)

\* C7 as claimed: for every ACTIVE refresh token T, logout(T) succeeds and a
\* second logout(T) fails with 'Token already revoked' and changes nothing.
C7_LogoutTwice_Claimed ==
    \A i \in 1..Len(log) :
        (log[i].op = "logout" /\ log[i].wasActive) =>
            /\ log[i].ok
            /\ (i < Len(log) /\ log[i+1].op = "logout"
                    /\ log[i+1].tok = log[i].tok) =>
                   /\ ~log[i+1].ok
                   /\ log[i+1].err = AlreadyRevoked
                   /\ ~log[i+1].wrote

\* C7, amended: for every ACTIVE refresh token T whose JWT has not expired,
\* logout(T) succeeds and sets revoked = true on T's row; a second logout(T)
\* fails and changes nothing, with 'Token already revoked' while the JWT has
\* not expired.
C7_LogoutTwice ==
    \A i \in 1..Len(log) :
        (log[i].op = "logout" /\ log[i].wasActive /\ log[i].unexpired) =>
            /\ log[i].ok
            /\ \A r \in tokens : r.token = log[i].tok => r.isRevoked
            /\ (i < Len(log) /\ log[i+1].op = "logout"
                    /\ log[i+1].tok = log[i].tok) =>
                   /\ ~log[i+1].ok
                   /\ ~log[i+1].wrote
                   /\ log[i+1].unexpired => log[i+1].err = AlreadyRevoked

\* two logouts of one token in a row, the first on an ACTIVE row
C7_Witness ==
    /\ Len(log) >= 2
    /\ log[Len(log) - 1].op = "logout" /\ log[Len(log) - 1].wasActive
    /\ log[Len(log) - 1].ok
    /\ Last.op = "logout" /\ Last.tok = log[Len(log) - 1].tok
    /\ Last.err = AlreadyRevoked

\* C8: logout(T) changes only T's row; every other row of the same account
\* and of every other account keeps its state.
C8_LogoutTouchesOneRow ==
    [][\A p \in Procs :
          (proc[p].op = "logout" /\ proc'[p] # proc[p]) =>
              /\ \A r \in tokens : r.token # proc[p].tok => r \in tokens'
              /\ \A r2 \in tokens' : r2.token # proc[p].tok => r2 \in tokens]_vars

\* a logout succeeded while the same account holds another row, and another
\* account has an ACTIVE session
C8_Witness ==
    /\ log # <<>> /\ Last.op = "logout" /\ Last.ok
    /\ \E r \in tokens : r.token # Last.tok /\ r.userId = Last.tok.userId
    /\ \E r \in tokens : r.userId # Last.tok.userId /\ Active(r, now)
    /\ \E r \in tokens : r.token = Last.tok /\ r.isRevoked

\* C9: after refresh(X) returns Y, Y has an ACTIVE row owned by X's account,
\* and in the sequence refresh(X) -> Y, refresh(X) -> Unauthorized,
\* refresh(Y) the third call (made before Y's JWT expires) succeeds and
\* returns a new token Z.
C9_ScenarioC ==
    /\ \A i \in 1..Len(log) :
          (log[i].op = "refresh" /\ log[i].ok) =>
              \E r \in tokens :
                  /\ r.token = log[i].out /\ r.userId = log[i].tok.userId
                  /\ (i = Len(log) /\ Quiet) => ~r.isRevoked
    /\ (/\ Len(log) = 3
        /\ log[1].op = "refresh" /\ log[1].ok
        /\ log[2].op = "refresh" /\ log[2].tok = log[1].tok
        /\ log[3].op = "refresh" /\ log[3].tok = log[1].out
        /\ log[3].unexpired) =>
           /\ ~log[2].ok /\ Unauthorized(log[2].err)
           /\ log[3].ok /\ log[3].out \notin {log[1].tok, log[1].out}

\* C10: the refresh token a successful rotation returns (AuthService
\* .refreshToken or JWTService.refreshTokens) differs from the one presented.
C10_RotatedTokenDiffers ==
    \A i \in 1..Len(log) :
        (log[i].op \in {"refresh", "jwtRefresh"} /\ log[i].ok) =>
            log[i].out # log[i].tok

\* AuthController.login answers 401 for these errors; the others used here
\* are answered with 500
LoginStatus(e) ==
    IF \E kw \in LoginKeywords : Includes(e, kw) THEN 401 ELSE 500

\* C11: concurrent login calls with correct credentials for the same account
\* all succeed, and the tokens they return are pairwise different.
C11_ConcurrentLogins ==
    \A i \in 1..Len(log) :
        (log[i].op = "login" /\ log[i].known
             /\ KnownNow(log[i].email, "Aa1!aaaa")) =>
            /\ log[i].ok
            /\ \A j \in 1..Len(log) :
                   (j # i /\ log[j].op = "login" /\ log[j].ok) =>
                       log[j].out # log[i].out

\* C12: when revokeAllTokens(a) returns, every refresh-token row of account
\* a has revoked = true, so none is ACTIVE, and the rows of every other
\* account are unchanged.
C12_RevokeAllLeavesNoneActive ==
    [][\A p \in Procs :
          (proc[p].pc = "revokeAll_update" /\ proc'[p].pc = "idle") =>
              /\ \A r \in tokens' :
                     r.userId = proc[p].uid => (r.isRevoked /\ ~Active(r, now'))
              /\ \A r \in tokens : r.userId # proc[p].uid => r \in tokens'
              /\ \A r \in tokens' : r.userId # proc[p].uid => r \in tokens]_vars

\* revokeAllTokens flipped a row of one account while another account holds
\* an ACTIVE row
C12_Witness ==
    /\ log # <<>> /\ Last.op = "revokeAll" /\ Last.ok /\ Last.count > 0
    /\ \E r \in tokens : r.userId = Last.uid /\ r.isRevoked
    /\ \E r \in tokens : r.userId # Last.uid /\ Active(r, now)

\* C13 as claimed: revokeAllTokens(a) returns exactly the number of rows of a
\* that were ACTIVE (revoked = false and expiresAt > now) immediately before
\* the call.
C13_CountOfActive ==
    \A i \in 1..Len(log) :
        (log[i].op = "revokeAll" /\ log[i].ok) => log[i].count = log[i].nActive

\* C13, amended: revokeAllTokens(a) returns exactly the number of rows of a
\* that had revoked = false immediately before the call, expired or not, and
\* the call leaves every row of a with revoked = true.
C13_CountOfUnrevoked ==
    \A i \in 1..Len(log) :
        log[i].op = "revokeAll" =>
            /\ log[i].ok
            /\ log[i].count = log[i].nLive
            /\ (i = Len(log) /\ Quiet) =>
                   \A r \in tokens : r.userId = log[i].uid => r.isRevoked

\* revokeAllTokens flipped a row that was past its expiresAt
C13_Witness ==
    /\ log # <<>> /\ Last.op = "revokeAll" /\ Last.ok
    /\ Last.count > Last.nActive

\* C14: cleanupExpiredTokens deletes only rows that are revoked or past their
\* expiresAt, never a row that is ACTIVE at the moment of the deletion, also
\* while login, refresh and logout are in progress.
C14_CleanupSparesActive ==
    [][\A p \in Procs :
          (proc[p].pc = "cleanup_delete" /\ proc'[p].pc = "idle") =>
              \A r \in tokens \ tokens' :
                  (r.isRevoked \/ r.expiresAt < now) /\ ~Active(r, now)]_vars

\* a row was deleted (fewer accounts and rows exist than ids were handed out)
\* while another row is ACTIVE
C14_Witness ==
    /\ Cardinality(users) + Cardinality(tokens) < nextId - 1
    /\ \E r \in tokens : Active(r, now)

\* C15: of two cleanupExpiredTokens calls in a row, with no row reaching its
\* expiresAt between the cutoff of the first and the cutoff of the second (and
\* none revoked, as no call is made in between), the second deletes nothing
\* and returns count 0.
C15_SecondCleanupIsNoOp ==
    [][\A p \in Procs :
          (/\ proc[p].pc = "cleanup_delete" /\ proc'[p].pc = "idle"
           /\ log # <<>> /\ Last.op = "cleanup"
           /\ ~\E r \in tokens :
                  Last.cutoff <= r.expiresAt /\ r.expiresAt < proc[p].cutoff) =>
              /\ tokens' = tokens
              /\ log'[Len(log')].count = 0]_vars

\* two cleanups in a row, the first of which deleted a row, with a row left
C15_Witness ==
    /\ Len(log) = 2
    /\ log[1].op = "cleanup" /\ log[1].count > 0
    /\ log[2].op = "cleanup" /\ log[2].count = 0
    /\ tokens # {}

\* C16: after deleteUser(a) succeeded no refresh-token row owned by a is in
\* the store, every later refresh or logout with a token of a fails, and a
\* login with a's address (not registered again since) fails with 401.
C16_DeletedAccountIsGone ==
    \A i \in 1..Len(log) :
        (log[i].op = "deleteUser" /\ log[i].ok) =>
            /\ \A r \in tokens : r.userId # log[i].uid
            /\ \A j \in (i+1)..Len(log) :
                   /\ (log[j].op \in {"refresh", "logout"}
                          /\ log[j].tok.userId = log[i].uid) => ~log[j].ok
                   /\ (log[j].op = "login"
                          /\ ToLowerCase(log[j].email) = log[i].email
                          /\ ~log[j].exists) =>
                          (~log[j].ok /\ LoginStatus(log[j].err) = 401)

\* an account with a session was deleted and its token was presented again
C16_Witness ==
    /\ Len(log) = 2
    /\ log[1].op = "deleteUser" /\ log[1].ok
    /\ log[2].op = "refresh" /\ log[2].tok.userId = log[1].uid
    /\ log[2].err = Err("Invalid refresh token")

\* AuthController.register answers 409 USER_EXISTS, 400 VALIDATION_ERROR or
\* 500 REGISTRATION_FAILED by the words of the message
RegisterStatus(e) ==
    IF Includes(e, "already exists") THEN 409
    ELSE IF \E kw \in {"validation failed", "Invalid email", "required"} :
                Includes(e, kw)
         THEN 400
    ELSE 500

\* C17: of the register calls made with one address, in sequence or
\* concurrently, exactly one creates an account and every other one fails
\* with 409 USER_EXISTS; at most one account exists per address.
C17_OneAccountPerEmail ==
    /\ \A u1 \in users : \A u2 \in users :
           ToLowerCase(u1.email) = ToLowerCase(u2.email) => u1 = u2
    /\ \A i \in 1..Len(log) :
           log[i].op = "register" =>
               IF log[i].ok
               THEN \E u \in users : u.email = ToLowerCase(log[i].email)
               ELSE RegisterStatus(log[i].err) = 409

\* C18: in every reachable state, after any sequence of register, OAuth
\* sign-in and profile update, every stored address is lower-cased, and no
\* two accounts hold addresses that differ only in letter case.
C18_EmailsAreLowerCased ==
    /\ \A u \in users : u.email = ToLowerCase(u.email)
    /\ \A u1 \in users : \A u2 \in users :
           ToLowerCase(u1.email) = ToLowerCase(u2.email) => u1 = u2

\* C19: a login whose address has no account, whose account has no password,
\* or whose password does not match, fails with Unauthorized (401), and a
\* failed login writes nothing to the store.
C19_FailedLoginIsUnauthorized ==
    \A i \in 1..Len(log) :
        log[i].op = "login" =>
            /\ (~log[i].known /\ ~KnownNow(log[i].email, log[i].pw)) =>
                   (~log[i].ok /\ LoginStatus(log[i].err) = 401)
            /\ ~log[i].ok => ~log[i].wrote

\* C20: the response to a login that fails (status and message) is the one
\* given for an address that has no account, whether or not an account holds
\* the address; here for addresses that are free or held by an account with a
\* password.
C20_FailureHidesExistence ==
    \A i \in 1..Len(log) :
        (/\ log[i].op = "login" /\ ~log[i].ok
         /\ ~log[i].known /\ ~KnownNow(log[i].email, log[i].pw)
         /\ \A u \in users : u.email = ToLowerCase(log[i].email) =>
                                 u.password # NoPassword) =>
            /\ LoginStatus(log[i].err) = 401
            /\ log[i].err = Err("Invalid email or password")

WrongKind(e) ==
    e.msg \in {"Invalid token type",
               "Failed to verify access token: Invalid token type",
               "Failed to verify refresh token: Invalid token type"}

\* C22: verifyAccessToken of a refresh token this deployment signed, and
\* verifyRefreshToken of an access token it signed, fail with the wrong-kind
\* error ('Invalid token type'), for every subject, while the token has not
\* expired.
C22_WrongKindIsReported ==
    \A i \in 1..Len(log) :
        /\ (/\ log[i].op = "verifyAccessToken" /\ log[i].tok \in issued
            /\ log[i].unexpired) =>
               (~log[i].ok /\ WrongKind(log[i].err))
        /\ (/\ log[i].op = "verifyRefreshToken" /\ log[i].tok \in bearer
            /\ log[i].unexpired) =>
               (~log[i].ok /\ WrongKind(log[i].err))

\* C23: under every environment that passes validateEnvironment, a refresh
\* token is never accepted as the bearer token by authenticateToken, and an
\* access token is never accepted by refresh or by logout.
C23_KindsAreNotInterchangeable ==
    \A i \in 1..Len(log) :
        /\ (log[i].op = "authenticateToken" /\ log[i].tok.kind = "refresh") =>
               (~log[i].ok /\ log[i].res.status # 200)
        /\ (log[i].op \in {"refresh", "logout"} /\ log[i].tok.kind = "access")
               => ~log[i].ok

\* C24: verifyAccessToken and authenticateToken reject a token whose issuer or
\* audience is missing or is not this deployment's, also when its signature
\* is valid and it has not expired.
C24_IssuerAndAudienceAreChecked ==
    \A i \in 1..Len(log) :
        (/\ log[i].op \in {"verifyAccessToken", "authenticateToken"}
         /\ (log[i].tok.iss # Issuer \/ log[i].tok.aud # Audience)) =>
            ~log[i].ok

\* C25: when the linking step of an OAuth sign-in runs on a local account
\* that has a password and no provider id, that account gets provider google,
\* the external id as provider id and a verified address; no account is added
\* and the stored password is the same as before.
C25_LinkKeepsPassword ==
    [][\A p \in Procs :
          (proc[p].pc = "oauth_link" /\ proc'[p].pc # "oauth_link") =>
              LET cur == FindUserById(users, proc[p].uid)
              IN (/\ cur # NoUser /\ cur.provider = "local"
                  /\ cur.password # NoPassword /\ cur.providerId = "") =>
                     \E u \in users' :
                         /\ users' = (users \ {cur}) \cup {u}
                         /\ u.id = cur.id /\ u.email = cur.email
                         /\ u.provider = "google"
                         /\ u.providerId = proc[p].pw
                         /\ u.isEmailVerified
                         /\ u.password = cur.password]_vars

\* a sign-in has linked a registered account, which still has its password
C25_Witness ==
    /\ Len(log) > 0
    /\ Last.op = "oauth" /\ Last.exists /\ Last.wrote
    /\ \E u \in users :
           /\ u.id = Last.uid /\ u.provider = "google"
           /\ u.providerId = Last.pw /\ u.isEmailVerified
           /\ u.password = HashPassword("Aa1!aaaa")
    /\ Cardinality(users) = 1

\* C26: for an account with a password, unlinking after a link succeeds and
\* leaves provider local, no provider id and the same password; a login with
\* the password of the account succeeds whenever it is made.
C26_LinkUnlinkRoundTrip ==
    \A i \in 1..Len(log) :
        /\ (/\ log[i].op = "unlink" /\ log[i].res.before # NoUser
            /\ log[i].res.before.password # NoPassword) =>
               /\ log[i].ok
               /\ log[i].res.after.provider = "local"
               /\ log[i].res.after.providerId = ""
               /\ log[i].res.after.password = log[i].res.before.password
        /\ (/\ log[i].op = "login" /\ log[i].known
            /\ KnownNow(log[i].email, log[i].pw)) => log[i].ok

\* C27: a step of an OAuth sign-in never replaces the provider id an account
\* holds by a different one.
C27_ProviderIdIsNeverReplaced ==
    [][\A p \in Procs :
          (proc[p].op = "oauth" /\ proc'[p] # proc[p]) =>
              \A u \in users : \A v \in users' :
                  (u.id = v.id /\ u.providerId # "") =>
                      v.providerId = u.providerId]_vars

\* C28: every account has a password or a provider id, and unlinking an
\* account that has no password fails with 400 and the message that a
\* password must be set first, and writes nothing.
C28_AccountKeepsALoginMethod ==
    /\ \A u \in users : u.password # NoPassword \/ u.providerId # ""
    /\ \A i \in 1..Len(log) :
           (/\ log[i].op = "unlink" /\ log[i].res.before # NoUser
            /\ log[i].res.before.password = NoPassword) =>
               /\ ~log[i].ok /\ ~log[i].wrote
               /\ log[i].res.status = 400
               /\ log[i].err.msg =
                   "Cannot unlink OAuth account without setting a password first"
               /\ \A u \in users :
                      u.id = log[i].uid => u.providerId # ""

\* unlinking the account an OAuth sign-in created has just been refused
C28_Witness ==
    /\ Len(log) > 0
    /\ Last.op = "unlink" /\ ~Last.ok /\ Last.res.status = 400
    /\ Last.res.before.password = NoPassword
    /\ \E u \in users :
           /\ u.id = Last.uid /\ u.password = NoPassword
           /\ u.provider = "google" /\ u.providerId # ""

\* C29: unlinking an account that has no linked identity (provider local, no
\* provider id) is refused with 400 UNLINK_NOT_ALLOWED and writes nothing.
C29_UnlinkOfLocalIsRefused ==
    \A i \in 1..Len(log) :
        (/\ log[i].op = "unlink" /\ log[i].res.before # NoUser
         /\ log[i].res.before.provider = "local"
         /\ log[i].res.before.providerId = "") =>
            /\ ~log[i].ok /\ ~log[i].wrote
            /\ log[i].res.status = 400
            /\ log[i].res.code = "UNLINK_NOT_ALLOWED"

\* C30: for a request of an account whose stored provider is local the status
\* says isConnected false and provider local; for any other account it says
\* isConnected true and the stored provider.
C30_StatusReportsStoredProvider ==
    \A i \in 1..Len(log) :
        (log[i].op = "getOAuthStatus" /\ log[i].ok) =>
            \A u \in users :
                u.id = log[i].uid =>
                    /\ log[i].res.isConnected = (u.provider # "local")
                    /\ log[i].res.provider = u.provider

\* the rules of the policy that a string of shape sh breaks
BrokenRules(sh) ==
    {m \in {"Password must be at least 8 characters long",
            "Password must be less than 128 characters long",
            "Password must contain at least one lowercase letter",
            "Password must contain at least one uppercase letter",
            "Password must contain at least one number",
            "Password must contain at least one special character"} :
        \/ m = "Password must be at least 8 characters long"
              /\ sh.len < MinPasswordLength
        \/ m = "Password must be less than 128 characters long"
              /\ sh.len > MaxPasswordLength
        \/ m = "Password must contain at least one lowercase letter"
              /\ ~sh.lower
        \/ m = "Password must contain at least one uppercase letter"
              /\ ~sh.upper
        \/ m = "Password must contain at least one number" /\ ~sh.digit
        \/ m = "Password must contain at least one special character"
              /\ ~sh.special}

\* the messages of an error list
Named(errors) == {errors[k] : k \in 1..Len(errors)}

\* C31 as claimed: validatePasswordStrength answers isValid exactly for the
\* strings that break no rule, and for every other string its error list
\* names every rule the string breaks.
C31_EveryBrokenRuleIsNamed_Claimed ==
    \A i \in 1..Len(log) :
        (log[i].op = "validatePasswordStrength" /\ log[i].res.input.str) =>
            /\ log[i].res.isValid <=> BrokenRules(log[i].res.input) = {}
            /\ BrokenRules(log[i].res.input) \subseteq Named(log[i].res.errors)

\* C31: validatePasswordStrength answers isValid exactly for the strings
\* that break no rule; for every other string that is not empty its error
\* list names exactly the rules the string breaks, and for the empty string
\* and for a value that is no string it is the one error 'Password must be a
\* string'.
C31_EveryBrokenRuleIsNamed ==
    \A i \in 1..Len(log) :
        log[i].op = "validatePasswordStrength" =>
            LET sh == log[i].res.input
            IN /\ log[i].res.isValid <=> (sh.str /\ BrokenRules(sh) = {})
               /\ log[i].ok = log[i].res.isValid
               /\ (sh.str /\ sh.len > 0) =>
                      Named(log[i].res.errors) = BrokenRules(sh)
               /\ (~sh.str \/ sh.len = 0) =>
                      log[i].res.errors = <<"Password must be a string">>

\* a string of seven characters with no digit and no symbol got three errors
C31_Witness ==
    /\ Len(log) > 0
    /\ Last.op = "validatePasswordStrength"
    /\ Last.res.input.len = MinPasswordLength - 1
    /\ ~Last.res.input.digit /\ ~Last.res.input.special
    /\ Last.res.input.lower /\ Last.res.input.upper
    /\ Len(Last.res.errors) = 3

\* C32: for every password P that meets the policy, comparePassword(P,
\* hashPassword(P)) is true and comparePassword(P2, hashPassword(P)) is false
\* for every P2 other than P.
C32_CompareInvertsHash ==
    \A i \in 1..Len(log) :
        (log[i].op = "comparePassword"
         /\ PasswordIsValid(log[i].res.hashedFrom)) =>
            (log[i].res.result <=> log[i].pw = log[i].res.hashedFrom)

\* C33: a logout with a refresh token that is not accepted (malformed,
\* expired, without a row, or with a row that is revoked or expired) is
\* answered 400 INVALID_REFRESH_TOKEN and writes nothing.
C33_RejectedLogoutIsClientError ==
    \A i \in 1..Len(log) :
        (/\ log[i].op = "logout"
         /\ log[i].tok.kind \in {"refresh", "garbage"}
         /\ ~(log[i].wasActive /\ log[i].unexpired)) =>
            /\ ~log[i].ok /\ ~log[i].wrote
            /\ LogoutResponse(log[i].err) =
                   [status |-> 400, code |-> "INVALID_REFRESH_TOKEN"]

\* C34: a refresh with a refresh token that is not accepted (malformed,
\* expired, without a row, or with a row that is revoked or expired) is
\* answered 401 INVALID_REFRESH_TOKEN and writes nothing.
C34_RejectedRefreshIsUnauthorized ==
    \A i \in 1..Len(log) :
        (/\ log[i].op = "refresh"
         /\ log[i].tok.kind \in {"refresh", "garbage"}
         /\ ~(log[i].wasActive /\ log[i].unexpired)) =>
            /\ ~log[i].ok /\ ~log[i].wrote
            /\ RefreshResponse(log[i].err) =
                   [status |-> 401, code |-> "INVALID_REFRESH_TOKEN"]

\* a refresh with a token whose JWT has expired has just been refused, and
\* the row of the token is as it was
C34_Witness ==
    /\ Len(log) > 0
    /\ Last.op = "refresh" /\ ~Last.ok /\ ~Last.unexpired
    /\ Last.tok \in issued
    /\ Last.err = Err("Refresh token has expired")
    /\ \E r \in tokens : r.token = Last.tok /\ ~r.isRevoked

\* C35: after updateUserProfile has changed the address of an account to E,
\* the next call, a login with E and the password of the account, succeeds.
C35_LoginAfterEmailChange ==
    \A i \in 1..(Len(log) - 1) :
        (/\ log[i].op = "updateProfile" /\ log[i].ok /\ log[i].wrote
         /\ log[i+1].op = "login" /\ log[i+1].email = log[i].email
         /\ \E u \in users :
                /\ u.id = log[i].uid /\ u.email = log[i].email
                /\ ComparePassword(log[i+1].pw, u.password)) =>
            log[i+1].ok

\* the status of the answer to a login request
LoginRequestStatus(e) ==
    IF e.res.status = 429 THEN 429 ELSE LoginStatus(e.err)

\* C36: of the failed login requests of one client in one window, the first
\* 10 are answered 401 and every further one is answered 429.
C36_TenAttemptsThenLimited ==
    \A i \in 1..Len(log) :
        (log[i].op = "login" /\ log[i].limited /\ ~log[i].known) =>
            IF log[i].res.totalHits <= 10
            THEN LoginRequestStatus(log[i]) = 401
            ELSE LoginRequestStatus(log[i]) = 429

\* the rotation of tok has revoked its row and has not stored the new one
InFlight(p) ==
    proc[p].op = "refresh" /\ proc[p].pc \in {"refresh_gen", "refresh_create"}

\* the row of tok is there and revoked, and no row was rotated from it
LeftWithout(tok) ==
    /\ FindToken(tokens, tok) # NoRow
    /\ FindToken(tokens, tok).isRevoked
    /\ Descendants(tok) = {}

\* C37: a refreshToken(T) that stops or fails after it revoked T's row and
\* before the new row is stored leaves T revoked and without a descendant,
\* and the caller gets an error and no token: nothing is rolled back.
C37_FailedRotationIsNotRolledBack ==
    /\ \A p \in Procs : InFlight(p) => LeftWithout(proc[p].tok)
    /\ (Len(log) > 0 /\ Last.op = "refresh" /\ ~Last.ok /\ Last.wrote) =>
           /\ LeftWithout(Last.tok)
           /\ Last.err # NoErr
           /\ Last.out = NoToken

C37_Witness ==
    /\ Len(log) > 0
    /\ Last.op = "refresh" /\ ~Last.ok /\ Last.wrote
    /\ Last.wasActive
    /\ Quiet
    /\ LeftWithout(Last.tok)

\* the answer of AuthController.register to an error of the service
Conflict(e) == Includes(e, "already exists")

\* C38: register creates the account and its first refresh-token row or
\* neither: after a register of a free address returned an error no account
\* holds the address, and the same registration made again is not answered
\* with Conflict.
C38_RegisterIsAllOrNothing ==
    \A i \in 1..Len(log) :
        (log[i].op = "register" /\ ~log[i].ok /\ ~log[i].exists) =>
            /\ (i = Len(log)) => ~ExistsNow(log[i].email)
            /\ (i < Len(log) /\ log[i+1].op = "register"
                    /\ log[i+1].email = log[i].email) =>
                   ~Conflict(log[i+1].err)

\* C39: cleanupExpiredTokens, run at any point between calls, does not change
\* whether a later refreshToken or logout of an issued token succeeds.
C39_PurgeKeepsOutcomes ==
    Quiet =>
        \A tok \in issued : \A t \in now..MaxTime :
            /\ RefreshSucceeds(PurgeTokens(tokens, now), users, tok, t)
                  = RefreshSucceeds(tokens, users, tok, t)
            /\ LogoutSucceeds(PurgeTokens(tokens, now), tok, t)
                  = LogoutSucceeds(tokens, tok, t)

\* C40: authenticateToken decides on the token and the clock alone: an access
\* token the service returned is accepted exactly until its own expiry,
\* whatever logout, revokeAllTokens, rotation or deletion of the account did
\* to the store in the meantime.
C40_AcceptedUntilExpiry ==
    \A i \in 1..Len(log) :
        (log[i].op = "authenticateToken" /\ log[i].tok \in bearer) =>
            /\ log[i].ok <=> log[i].unexpired
            /\ log[i].ok => log[i].res.user.id = log[i].tok.userId

\* the token is accepted after the call before it ended its session or
\* deleted its account
C40_Witness ==
    /\ Len(log) = 2
    /\ Last.op = "authenticateToken" /\ Last.ok
    /\ log[1].op \in {"logout", "revokeAll", "deleteUser", "refresh"}
    /\ log[1].wrote
    /\ ~\E r \in tokens : r.userId = Last.tok.userId /\ ~r.isRevoked

====
